---- MODULE Spec2Model ----
(***************************************************************************)
(* Model of the UGC ad generator's orchestration core:                     *)
(*   - utils/retry          : isRetryableError, calculateBackoffDelay,     *)
(*                            withRetry, withBatchRetry                    *)
(*   - api/sora2-client     : the constructor, waitForRateLimit,           *)
(*                            generateVideo, pollJobStatus, generate,      *)
(*                            generateBatch                                *)
(*   - core/UGCAdGenerator  : the constructor, generate                    *)
(*   - utils/cost-tracker   : calculateVideoCost, recordCost, getTotalCost,*)
(*                            reset                                        *)
(* Each component has its own specification (SpecRetry, SpecPoll,          *)
(* SpecRate, SpecBatch, SpecBatchRetry, SpecLedger, SpecGen, SpecItem,     *)
(* SpecPlan, SpecInstances; SpecPollFair is SpecPoll with fairness); the   *)
(* variables of the other components stay at their initial values in it.   *)
(***************************************************************************)
EXTENDS Integers, Sequences, FiniteSets, TLC

VARIABLES
  \* ---- withRetry (utils/retry) ----
  rConfig,       \* the RetryConfig of the call
  rContext,      \* the context label of the call
  rPc,           \* "loop" | "invoke" | "awaiting" | "returned" | "thrown"
  rAttempt,      \* the for loop's attempt counter
  rInvocations,  \* number of times fn() has been invoked
  rSleeps,       \* the delays slept so far, in order
  rLastError,    \* the lastError local
  rRaised,       \* the errors fn() rejected with so far, in order
  rOutcome,      \* what withRetry returned or threw
  bCall,         \* the last direct call of calculateBackoffDelay: argument, result
  \* ---- the clock ----
  clock,         \* Date.now(), in ms
  \* ---- Sora2APIClient.pollJobStatus ----
  pPc,           \* "idle" | "loop" | "querying" | "sleeping" | "returned" | "thrown"
  pStartTime,    \* the startTime local
  pProgress,     \* the progress local
  pQueries,      \* number of getJobStatus calls made
  pLastQueryAt,  \* clock at the last getJobStatus call (-1: none yet)
  pResponseAt,   \* clock when the last status response arrived (-1: none yet)
  pWakeAt,       \* when the pending polling sleep is due
  pLogged,       \* the progress values logged, in order
  pStatus,       \* the status local: the last response of getJobStatus
  pOutcome,      \* what pollJobStatus returned or threw
  \* ---- Sora2APIClient.waitForRateLimit ----
  requestTimestamps,  \* the client's requestTimestamps array
  wPc,           \* per caller: "idle" | "sleeping" | "admitted"
  wNow,          \* per caller: the now local
  wWakeAt,       \* per caller: when its sleep is due
  admissions,    \* the clock at each return of waitForRateLimit, in order
  \* ---- Sora2APIClient.generateBatch ----
  bPc,           \* "idle" | "split" | "run" | "returned" | "rejected"
  bRequests,     \* the requests array: request k is the number k
  bConcurrency,  \* the concurrency parameter
  bI,            \* the i of the partitioning loop
  batches,       \* the batches array
  bIndex,        \* the batch being awaited (1-based)
  tPc,           \* per request: "none" | "submitting" | "polling" | "fulfilled" | "rejected"
  tResult,       \* per request: what this.generate(request) settled with
  settleOrder,   \* the requests whose tasks have settled, in settling order
  results,       \* the results array
  bOutcome,      \* what generateBatch returned or rejected with
  \* ---- withBatchRetry (utils/retry) ----
  wbPc,          \* "idle" | "run" | "returned"
  wbConfig,      \* the config parameter
  wbTasks,       \* the number of tasks
  kPc,           \* per task: "none" | "loop" | "awaiting" | "fulfilled" | "rejected"
  kAttempt,      \* per task: the attempt counter of its withRetry
  kSettled,      \* per task: the settled result of its withRetry promise
  wbOutcome,     \* what withBatchRetry returned
  \* ---- CostTracker ----
  totalCost,     \* the ledger's running total, in cents
  costs,         \* the ledger's entries
  cBudget,       \* the ledger's monthlyBudget field, in cents
  cWarned,       \* whether the last recordCost call logged the budget warning
  cCalls,        \* the calculateVideoCost calls made: arguments and result
  \* ---- UGCAdGenerator.generate ----
  gConfig,       \* the generator's config
  gPc,           \* "idle" | "validate" | "policy" | "batch" | "score" | "returned" | "thrown"
  gRequest,      \* the request of the call
  generationPlan,\* the generationPlan local
  sora2Responses,\* the sora2Responses local
  gIndex,        \* the index of the scoring loop (0-based)
  generatedAds,  \* the generatedAds local
  failedAds,     \* the failedAds local
  gOutcome,      \* what generate returned or threw
  validationResult,  \* the validationResult local
  policyCheckResult, \* the policyCheckResult local
  gCalls,        \* the calls generate made to its collaborators, in order
  \* ---- the constructors and Sora2APIClient.generate ----
  cOutcome,      \* what the constructor call returned or threw
  iOutcome,      \* what Sora2APIClient.generate returned or threw
  iPollCalls,    \* number of pollJobStatus calls made
  \* ---- UGCAdGenerator.createGenerationPlan ----
  planCall,      \* the last createGenerationPlan call: argument and result
  \* ---- several UGCAdGenerator instances ----
  insts,         \* per instance: its client's rate window and caller, its ledger
  actor          \* the instance the last method call was made on (0: none)

retryVars == <<rConfig, rContext, rPc, rAttempt, rInvocations, rSleeps,
               rLastError, rRaised, rOutcome, bCall>>

pollVars == <<pPc, pStartTime, pProgress, pQueries, pLastQueryAt, pResponseAt,
              pWakeAt, pLogged, pStatus, pOutcome>>

rateVars == <<requestTimestamps, wPc, wNow, wWakeAt, admissions>>

batchVars == <<bPc, bRequests, bConcurrency, bI, batches, bIndex, tPc, tResult,
               settleOrder, results, bOutcome>>

batchRetryVars == <<wbPc, wbConfig, wbTasks, kPc, kAttempt, kSettled, wbOutcome>>

ledgerVars == <<totalCost, costs, cBudget, cWarned>>

genVars == <<gConfig, gPc, gRequest, generationPlan, sora2Responses, gIndex,
             generatedAds, failedAds, gOutcome, validationResult,
             policyCheckResult, gCalls>>

itemVars == <<cOutcome, iOutcome, iPollCalls>>

planVars == <<planCall>>

instVars == <<insts, actor>>

vars == <<retryVars, clock, pollVars, rateVars, batchVars, batchRetryVars,
          ledgerVars, cCalls, genVars, itemVars, planVars, instVars>>

\* what the actions of one component leave alone
notRetry == <<clock, pollVars, rateVars, batchVars, batchRetryVars, ledgerVars,
              cCalls, genVars, itemVars, planVars, instVars>>
notPoll  == <<retryVars, rateVars, batchVars, batchRetryVars, ledgerVars, cCalls,
              genVars, itemVars, planVars, instVars>>
notRate  == <<retryVars, pollVars, batchVars, batchRetryVars, ledgerVars, cCalls,
              genVars, itemVars, planVars, instVars>>
notBatch == <<retryVars, clock, pollVars, rateVars, batchRetryVars, ledgerVars,
              cCalls, genVars, itemVars, planVars, instVars>>
notGen   == <<retryVars, clock, pollVars, rateVars, batchRetryVars, cCalls, itemVars, planVars, instVars>>
notBatchRetry == <<retryVars, clock, pollVars, rateVars, batchVars, ledgerVars,
                   cCalls, genVars, itemVars, planVars, instVars>>
notLedger == <<retryVars, clock, pollVars, rateVars, batchVars, batchRetryVars,
               genVars, itemVars, planVars, instVars>>

----------------------------------------------------------------------------
(* Small helpers *)

Min(a, b) == IF a <= b THEN a ELSE b
Max(a, b) == IF a >= b THEN a ELSE b

RECURSIVE Pow(_, _)
\* Math.pow on the non-negative integers
Pow(b, e) == IF e = 0 THEN 1 ELSE b * Pow(b, e - 1)

DigitChar(d) == CASE d = 0 -> "0" [] d = 1 -> "1" [] d = 2 -> "2" [] d = 3 -> "3"
                  [] d = 4 -> "4" [] d = 5 -> "5" [] d = 6 -> "6" [] d = 7 -> "7"
                  [] d = 8 -> "8" [] d = 9 -> "9"

RECURSIVE NumToString(_)
\* template-literal conversion of a non-negative integer: its decimal digits
NumToString(n) == IF n < 10 THEN <<DigitChar(n)>>
                  ELSE NumToString(n \div 10) \o <<DigitChar(n % 10)>>

\* String.prototype.includes on texts kept as sequences of tokens:
\* whether `part` occurs contiguously in `text`
Includes(text, part) ==
  \E i \in 0..(Len(text) - Len(part)) :
     \A j \in 1..Len(part) : text[i + j] = part[j]

----------------------------------------------------------------------------
(* utils/retry *)

\* a thrown JavaScript value: an Error object (name, message) or any other value
ErrorObj(name, message) == [isError |-> TRUE, name |-> name, message |-> message]
NonError(text)          == [isError |-> FALSE, name |-> "", message |-> text]
NoError                 == [isError |-> FALSE, name |-> "undefined", message |-> <<"undefined">>]

defaultRetryConfig ==
  [maxRetries        |-> 3,
   initialDelay      |-> 30000,
   maxDelay          |-> 300000,
   backoffMultiplier |-> 2,
   retryableErrors   |-> {"RateLimitExceeded", "APITimeout", "GenerationFailed",
                          "NetworkError"}]

isRetryableError(error, retryableErrors) ==
  /\ error.isError
  /\ \E r \in retryableErrors :
        \/ Includes(error.message, <<r>>)
        \/ error.name = r

\* calculateBackoffDelay without the Math.min of line 49
calculateBackoffDelayUncapped(attempt, config) ==
  config.initialDelay * Pow(config.backoffMultiplier, attempt)

calculateBackoffDelay(attempt, config) ==
  LET delay == config.initialDelay * Pow(config.backoffMultiplier, attempt)
  IN  Min(delay, config.maxDelay)

\* The message of the error thrown after the last retry; the token
\* " retries, still failing: " stands for the fixed Japanese text of the template
ExhaustedMessage(context, config, lastError) ==
  <<context, ": ">> \o NumToString(config.maxRetries)
     \o <<" retries, still failing: ">> \o lastError.message

----------------------------------------------------------------------------
(* Inputs of the withRetry specification *)

MaxRetriesBound == 6

RetryConfigs ==
  {[defaultRetryConfig EXCEPT !.maxRetries = m] : m \in 0..MaxRetriesBound}
  \cup {[maxRetries |-> 2, initialDelay |-> 1000, maxDelay |-> 5000,
         backoffMultiplier |-> 3, retryableErrors |-> {"RateLimitExceeded"}]}

RetryContexts == {"operation", "Sora2 API generateVideo"}

\* What the operation can reject with
E_RateLimit == ErrorObj("Error", <<"RateLimitExceeded">>)
E_Timeout   == ErrorObj("Error", <<"APITimeout">>)
E_Api       == ErrorObj("Error", <<"Sora2 API Error: ", "detail">>)
E_NamedNet  == ErrorObj("NetworkError", <<"socket hang up">>)
E_String    == NonError(<<"RateLimitExceeded">>)

OperationErrors == {E_RateLimit, E_Timeout, E_Api, E_NamedNet, E_String}
OperationValues == {"value"}

NoOutcome == [kind |-> "none"]
NoCall    == [attempt |-> -1, delay |-> -1]

InitRetry ==
  /\ rConfig \in RetryConfigs
  /\ rContext \in RetryContexts
  /\ rPc \in {"loop", "direct"}
  /\ rAttempt = 0
  /\ rInvocations = 0
  /\ rSleeps = <<>>
  /\ rLastError = NoError
  /\ rRaised = <<>>
  /\ rOutcome = NoOutcome
  /\ bCall = NoCall

\* the variables of withRetry when no withRetry call is modelled
IdleRetry ==
  /\ rConfig = defaultRetryConfig
  /\ rContext = "operation"
  /\ rPc = "idle"
  /\ rAttempt = 0
  /\ rInvocations = 0
  /\ rSleeps = <<>>
  /\ rLastError = NoError
  /\ rRaised = <<>>
  /\ rOutcome = NoOutcome
  /\ bCall = NoCall

\* lines 44-50: a caller other than withRetry applies calculateBackoffDelay
CalculateBackoffDelayCall ==
  /\ rPc = "direct"
  /\ \E attempt \in 0..(MaxRetriesBound + 1) :
        bCall' = [attempt |-> attempt,
                  delay   |-> calculateBackoffDelay(attempt, rConfig)]
  /\ UNCHANGED <<rConfig, rContext, rPc, rAttempt, rInvocations, rSleeps,
                 rLastError, rRaised, rOutcome>>
  /\ UNCHANGED notRetry

\* the loop head sleeping before every attempt, the first included
WithRetryBackoffEveryAttempt ==
  /\ rPc = "loop"
  /\ rAttempt <= rConfig.maxRetries
  /\ rSleeps' = Append(rSleeps, calculateBackoffDelay(Max(rAttempt - 1, 0), rConfig))
  /\ rPc' = "invoke"
  /\ UNCHANGED <<rConfig, rContext, rAttempt, rInvocations, rLastError,
                 rRaised, rOutcome, bCall>>
  /\ UNCHANGED notRetry

\* lines 75-84: the loop head and the backoff sleep of a retry (attempt > 0)
WithRetryBackoff ==
  /\ rPc = "loop"
  /\ rAttempt <= rConfig.maxRetries
  /\ IF rAttempt > 0
       THEN rSleeps' = Append(rSleeps, calculateBackoffDelay(rAttempt - 1, rConfig))
       ELSE rSleeps' = rSleeps
  /\ rPc' = "invoke"
  /\ UNCHANGED <<rConfig, rContext, rAttempt, rInvocations, rLastError,
                 rRaised, rOutcome, bCall>>
  /\ UNCHANGED notRetry

\* line 86: fn() is called
WithRetryInvoke ==
  /\ rPc = "invoke"
  /\ rInvocations' = rInvocations + 1
  /\ rPc' = "awaiting"
  /\ UNCHANGED <<rConfig, rContext, rAttempt, rSleeps, rLastError, rRaised,
                 rOutcome, bCall>>
  /\ UNCHANGED notRetry

\* line 86: fn() fulfils, withRetry returns its value
WithRetryResolve(v) ==
  /\ rPc = "awaiting"
  /\ rOutcome' = [kind |-> "returned", value |-> v]
  /\ rPc' = "returned"
  /\ UNCHANGED <<rConfig, rContext, rAttempt, rInvocations, rSleeps,
                 rLastError, rRaised, bCall>>
  /\ UNCHANGED notRetry

\* Catch without the classification of lines 90-93: every error is retried
CatchRetryEveryError(error) ==
  /\ rPc = "awaiting"
  /\ rRaised' = Append(rRaised, error)
  /\ rLastError' = error
  /\ IF rAttempt = rConfig.maxRetries
       THEN /\ rOutcome' = [kind |-> "thrown",
                            error |-> ErrorObj("Error",
                               ExhaustedMessage(rContext, rConfig, error)),
                            wrapped |-> TRUE]
            /\ rPc' = "thrown"
            /\ rAttempt' = rAttempt
       ELSE /\ rOutcome' = rOutcome
            /\ rPc' = "loop"
            /\ rAttempt' = rAttempt + 1
  /\ UNCHANGED <<rConfig, rContext, rInvocations, rSleeps, bCall>>
  /\ UNCHANGED notRetry

\* Catch with lastError assigned on the first failure only
CatchKeepFirstError(error) ==
  /\ rPc = "awaiting"
  /\ rRaised' = Append(rRaised, error)
  /\ rLastError' = IF rRaised = <<>> THEN error ELSE rLastError
  /\ IF ~isRetryableError(error, rConfig.retryableErrors)
       THEN /\ rOutcome' = [kind |-> "thrown", error |-> error, wrapped |-> FALSE]
            /\ rPc' = "thrown"
            /\ rAttempt' = rAttempt
       ELSE IF rAttempt = rConfig.maxRetries
       THEN /\ rOutcome' = [kind |-> "thrown",
                            error |-> ErrorObj("Error",
                               ExhaustedMessage(rContext, rConfig, rLastError')),
                            wrapped |-> TRUE]
            /\ rPc' = "thrown"
            /\ rAttempt' = rAttempt
       ELSE /\ rOutcome' = rOutcome
            /\ rPc' = "loop"
            /\ rAttempt' = rAttempt + 1
  /\ UNCHANGED <<rConfig, rContext, rInvocations, rSleeps, bCall>>
  /\ UNCHANGED notRetry

\* lines 87-114: fn() rejects with `error`
Catch(error) ==
  /\ rPc = "awaiting"
  /\ rRaised' = Append(rRaised, error)
  /\ rLastError' = error
  /\ IF ~isRetryableError(error, rConfig.retryableErrors)
       THEN \* line 92: throw error
            /\ rOutcome' = [kind |-> "thrown", error |-> error, wrapped |-> FALSE]
            /\ rPc' = "thrown"
            /\ rAttempt' = rAttempt
       ELSE IF rAttempt = rConfig.maxRetries
       THEN \* line 100: break, then lines 110-114
            /\ rOutcome' = [kind |-> "thrown",
                            error |-> ErrorObj("Error",
                               ExhaustedMessage(rContext, rConfig, error)),
                            wrapped |-> TRUE]
            /\ rPc' = "thrown"
            /\ rAttempt' = rAttempt
       ELSE \* falls out of the catch block: attempt++
            /\ rOutcome' = rOutcome
            /\ rPc' = "loop"
            /\ rAttempt' = rAttempt + 1
  /\ UNCHANGED <<rConfig, rContext, rInvocations, rSleeps, bCall>>
  /\ UNCHANGED notRetry

WithRetryReject == \E error \in OperationErrors : Catch(error)

WithRetryFulfil == \E v \in OperationValues : WithRetryResolve(v)

NextRetry ==
  \/ CalculateBackoffDelayCall
  \/ WithRetryBackoff
  \/ WithRetryInvoke
  \/ WithRetryFulfil
  \/ WithRetryReject

----------------------------------------------------------------------------
(* api/sora2-client: RATE_LIMIT and pollJobStatus *)

requestsPerMinute == 3
pollingInterval   == 10000
generationTimeout == 300000

Undefined == "undefined"

\* the APITimeout error of line 152
TimeoutError(jobId) ==
  ErrorObj("Error", <<"APITimeout", ": job ", jobId, " timed out">>)

\* the error of line 169; `reason` is status.error, or Undefined
GenerationFailedError(reason) ==
  ErrorObj("Error", <<"GenerationFailed", ": ",
                      IF reason = Undefined THEN "unknown error" ELSE reason>>)

\* the error of getJobStatus, line 193
StatusQueryError == ErrorObj("Error", <<"Failed to get job status: ", "statusText">>)

\* line 151 with a grace period of one polling interval
TimedOutLate(elapsed) == elapsed > generationTimeout + pollingInterval

\* line 151
TimedOut(elapsed) == elapsed > generationTimeout

(* Inputs of the pollJobStatus specification *)

\* the largest latency of one status query, in half polling intervals
MaxLatencyUnits == 3

LatencyUnit == pollingInterval \div 2

\* how long one status query can take
Latencies == {0, LatencyUnit, MaxLatencyUnits * LatencyUnit}

\* how late after its due time a setTimeout callback can run
TimerLags == {0, LatencyUnit}

JobId == "job-1"

\* a response without a progress field
NoProgress == -1

ProgressValues == {NoProgress, 30, 60}

\* what getJobStatus can resolve with (lines 204-211)
StatusResponses ==
  {[jobId |-> JobId, status |-> st, videoUrl |-> Undefined,
    thumbnailUrl |-> Undefined, error |-> Undefined, progress |-> pr] :
      st \in {"queued", "processing"}, pr \in ProgressValues}
  \cup
  {[jobId |-> JobId, status |-> "completed", videoUrl |-> url,
    thumbnailUrl |-> Undefined, error |-> Undefined, progress |-> pr] :
      url \in {"https://video", Undefined}, pr \in {NoProgress, 60}}
  \cup
  {[jobId |-> JobId, status |-> "failed", videoUrl |-> Undefined,
    thumbnailUrl |-> Undefined, error |-> er, progress |-> NoProgress] :
      er \in {"content rejected", Undefined}}

\* the status local before the first response
NoStatus ==
  [jobId |-> JobId, status |-> "none", videoUrl |-> Undefined,
   thumbnailUrl |-> Undefined, error |-> Undefined, progress |-> NoProgress]

\* a test that takes a response with a video for a completed one
StatusHasVideo(status) == status.videoUrl # Undefined

\* line 163: status.status === 'completed'
StatusCompleted(status) == status.status = "completed"

\* line 167: status.status === 'failed'
StatusFailed(status) == status.status = "failed"

\* a sleep that ends after half the time asked for
sleepHalf(now, ms) == now + ms \div 2

\* sleep(ms) started at `now`: when the timer is due
sleep(now, ms) == now + ms

\* a progress test that takes every change for an increase
ProgressChanged(status, progress) ==
  status.progress # NoProgress /\ status.progress # progress

\* line 158: status.progress !== undefined && status.progress > progress
ProgressIncreased(status, progress) ==
  status.progress # NoProgress /\ status.progress > progress

InitPoll ==
  /\ clock = 0
  /\ pPc = "loop"
  /\ pStartTime = 0
  /\ pProgress = 0
  /\ pQueries = 0
  /\ pLastQueryAt = -1
  /\ pResponseAt = -1
  /\ pWakeAt = -1
  /\ pLogged = <<>>
  /\ pStatus = NoStatus
  /\ pOutcome = NoOutcome

\* the variables of pollJobStatus when no pollJobStatus call is modelled
IdlePoll ==
  /\ pPc = "idle"
  /\ pStartTime = 0
  /\ pProgress = 0
  /\ pQueries = 0
  /\ pLastQueryAt = -1
  /\ pResponseAt = -1
  /\ pWakeAt = -1
  /\ pLogged = <<>>
  /\ pStatus = NoStatus
  /\ pOutcome = NoOutcome

\* lines 148-155: the loop head; the timeout check and, when it passes, the
\* call of getJobStatus follow each other with no suspension point between
PollLoopHead ==
  /\ pPc = "loop"
  /\ LET elapsed == clock - pStartTime
     IN  IF TimedOut(elapsed)
           THEN /\ pOutcome' = [kind |-> "thrown", error |-> TimeoutError(JobId)]
                /\ pPc' = "thrown"
                /\ UNCHANGED <<pQueries, pLastQueryAt>>
           ELSE /\ pQueries' = pQueries + 1
                /\ pLastQueryAt' = clock
                /\ pPc' = "querying"
                /\ UNCHANGED pOutcome
  /\ UNCHANGED <<clock, pStartTime, pProgress, pResponseAt, pWakeAt, pLogged,
                 pStatus>>
  /\ UNCHANGED notPoll

\* lines 155-173: getJobStatus resolves with `status` after `latency` ms
PollStatus(status, latency) ==
  /\ pPc = "querying"
  /\ clock' = clock + latency
  /\ pResponseAt' = clock'
  /\ pStatus' = status
  /\ IF ProgressIncreased(status, pProgress)
       THEN /\ pProgress' = status.progress
            /\ pLogged' = Append(pLogged, status.progress)
       ELSE UNCHANGED <<pProgress, pLogged>>
  /\ IF StatusCompleted(status)
       THEN /\ pOutcome' = [kind |-> "returned", value |-> status]
            /\ pPc' = "returned"
            /\ UNCHANGED pWakeAt
       ELSE IF StatusFailed(status)
       THEN /\ pOutcome' = [kind |-> "thrown",
                            error |-> GenerationFailedError(status.error)]
            /\ pPc' = "thrown"
            /\ UNCHANGED pWakeAt
       ELSE /\ pWakeAt' = sleep(clock', pollingInterval)
            /\ pPc' = "sleeping"
            /\ UNCHANGED pOutcome
  /\ UNCHANGED <<pStartTime, pQueries, pLastQueryAt>>
  /\ UNCHANGED notPoll

PollStatusResolves ==
  \E status \in StatusResponses, latency \in Latencies : PollStatus(status, latency)

\* line 155: getJobStatus rejects (lines 192-194) after `latency` ms
PollStatusRejects ==
  /\ pPc = "querying"
  /\ \E latency \in Latencies : clock' = clock + latency
  /\ pOutcome' = [kind |-> "thrown", error |-> StatusQueryError]
  /\ pPc' = "thrown"
  /\ UNCHANGED <<pStartTime, pProgress, pQueries, pLastQueryAt, pResponseAt,
                 pWakeAt, pLogged, pStatus>>
  /\ UNCHANGED notPoll

\* line 173: the polling sleep ends, at its due time or later
PollWake ==
  /\ pPc = "sleeping"
  /\ \E lag \in TimerLags : clock' = pWakeAt + lag
  /\ pPc' = "loop"
  /\ UNCHANGED <<pStartTime, pProgress, pQueries, pLastQueryAt, pResponseAt,
                 pWakeAt, pLogged, pStatus, pOutcome>>
  /\ UNCHANGED notPoll

NextPoll ==
  \/ PollLoopHead
  \/ PollStatusResolves
  \/ PollStatusRejects
  \/ PollWake

----------------------------------------------------------------------------
(* api/sora2-client: waitForRateLimit *)

rateWindow == 60000

(* Inputs of the waitForRateLimit specification *)

\* number of generateVideo calls made on the client
NumCallers == 5

\* how far the clock runs, in ticks
MaxTicks == 7

TickStep == rateWindow \div 6

Callers == 1..NumCallers

InitRate ==
  /\ requestTimestamps = <<>>
  /\ wPc = [c \in Callers |-> "idle"]
  /\ wNow = [c \in Callers |-> 0]
  /\ wWakeAt = [c \in Callers |-> 0]
  /\ admissions = <<>>

\* time passes
RateTick ==
  /\ clock < MaxTicks * TickStep
  /\ clock' = clock + TickStep
  /\ UNCHANGED rateVars
  /\ UNCHANGED notRate

\* line 50-52: the timestamps of the last minute
WithinLastMinute(timestamps, now) ==
  LET oneMinuteAgo == now - rateWindow
      Recent(timestamp) == timestamp > oneMinuteAgo
  IN  SelectSeq(timestamps, Recent)

\* lines 45-67 up to the first suspension point: caller c enters
\* waitForRateLimit; it either returns at once or goes to sleep. Callers are
\* interchangeable, so they enter in the order of their numbers.
WaitForRateLimitEnter(c) ==
  /\ wPc[c] = "idle"
  /\ \A b \in Callers : b < c => wPc[b] # "idle"
  /\ LET now      == clock
         filtered == WithinLastMinute(requestTimestamps, now)
         waitTime == rateWindow - (now - filtered[1])
     IN  IF Len(filtered) >= requestsPerMinute /\ waitTime > 0
           THEN /\ requestTimestamps' = filtered
                /\ wPc' = [wPc EXCEPT ![c] = "sleeping"]
                /\ wNow' = [wNow EXCEPT ![c] = now]
                /\ wWakeAt' = [wWakeAt EXCEPT ![c] = clock + waitTime]
                /\ UNCHANGED admissions
           ELSE /\ requestTimestamps' = Append(filtered, now)
                /\ wPc' = [wPc EXCEPT ![c] = "admitted"]
                /\ wNow' = [wNow EXCEPT ![c] = now]
                /\ admissions' = Append(admissions, clock)
                /\ UNCHANGED wWakeAt
  /\ UNCHANGED clock
  /\ UNCHANGED notRate

\* lines 63-67: the sleep of caller c ends (at its due time or later) and the
\* caller pushes the `now` it read on entry
WaitForRateLimitWake(c) ==
  /\ wPc[c] = "sleeping"
  /\ clock >= wWakeAt[c]
  /\ requestTimestamps' = Append(requestTimestamps, wNow[c])
  /\ wPc' = [wPc EXCEPT ![c] = "admitted"]
  /\ admissions' = Append(admissions, clock)
  /\ UNCHANGED <<clock, wNow, wWakeAt>>
  /\ UNCHANGED notRate

RateEnter == \E c \in Callers : WaitForRateLimitEnter(c)

RateWake == \E c \in Callers : WaitForRateLimitWake(c)

NextRate ==
  \/ RateTick
  \/ RateEnter
  \/ RateWake

----------------------------------------------------------------------------
(* api/sora2-client: generate and generateBatch *)

(* Inputs of the generateBatch specification *)

\* the largest number of requests of one generateBatch call
MaxItems == 4

\* the largest concurrency parameter
MaxConcurrency == 3

Items == 1..MaxItems

\* the job id the remote service gives to request k
JobIdOf(k) == <<"job-">> \o NumToString(k)

\* what this.generate(request k) can fulfil with: a response of status
\* "completed" returned by pollJobStatus (line 165), with or without a videoUrl
TaskResponses(k) ==
  {[jobId |-> JobIdOf(k), status |-> "completed", videoUrl |-> url,
    thumbnailUrl |-> Undefined, error |-> Undefined, progress |-> NoProgress] :
      url \in {"https://video", Undefined}}

\* what generateVideo can reject this.generate(request) with (lines 87-128)
SubmitErrors == {E_Api}

\* what pollJobStatus can reject this.generate(request k) with (lines 152, 169)
PollErrors(k) == {TimeoutError(JobIdOf(k)), GenerationFailedError("content rejected")}

\* Array.prototype.slice(start, end) on a 1-based sequence, for integers
Slice(array, start, end) ==
  LET len  == Len(array)
      from == IF start < 0 THEN Max(len + start, 0) ELSE Min(start, len)
      to   == IF end < 0 THEN Max(len + end, 0) ELSE Min(end, len)
  IN  IF from >= to THEN <<>> ELSE SubSeq(array, from + 1, to)

\* Array.prototype.slice(start, end) losing the last element of the range
SliceShort(array, start, end) ==
  Slice(array, start, end - 1)

\* the elements of a sequence
Range(seq) == {seq[k] : k \in 1..Len(seq)}

RECURSIVE Flatten(_)
Flatten(seqs) == IF seqs = <<>> THEN <<>> ELSE Head(seqs) \o Flatten(Tail(seqs))

IdleBatch ==
  /\ bPc = "idle"
  /\ bRequests = <<>>
  /\ bConcurrency = 0
  /\ bI = 0
  /\ batches = <<>>
  /\ bIndex = 0
  /\ tPc = [k \in Items |-> "none"]
  /\ tResult = [k \in Items |-> NoOutcome]
  /\ settleOrder = <<>>
  /\ results = <<>>
  /\ bOutcome = NoOutcome

\* lines 235-240: generateBatch(requests, concurrency) is called
GenerateBatchCall(requests, concurrency) ==
  /\ bPc' = "split"
  /\ bRequests' = requests
  /\ bConcurrency' = concurrency
  /\ bI' = 0
  /\ batches' = <<>>
  /\ bIndex' = 0
  /\ tPc' = [k \in Items |-> "none"]
  /\ tResult' = [k \in Items |-> NoOutcome]
  /\ settleOrder' = <<>>
  /\ results' = <<>>
  /\ bOutcome' = NoOutcome

\* lines 254-256: batch.map((request) => this.generate(request)) starts the
\* tasks of batch `index`; with no batch left, generateBatch returns (line 263)
StartBatch(index) ==
  /\ bIndex' = index
  /\ IF index <= Len(batches)
       THEN /\ tPc' = [k \in Items |->
                         IF k \in Range(batches[index]) THEN "submitting" ELSE tPc[k]]
            /\ bPc' = "run"
            /\ bOutcome' = bOutcome
       ELSE /\ tPc' = tPc
            /\ bPc' = "returned"
            /\ bOutcome' = [kind |-> "returned", value |-> results']

\* lines 243-245: one iteration of the partitioning loop
BatchSplitStep ==
  /\ bPc = "split"
  /\ bI < Len(bRequests)
  /\ batches' = Append(batches, Slice(bRequests, bI, bI + bConcurrency))
  /\ bI' = bI + bConcurrency
  /\ UNCHANGED <<bPc, bRequests, bConcurrency, bIndex, tPc, tResult, settleOrder,
                 results, bOutcome>>
  /\ UNCHANGED notBatch

\* lines 243-256: the partitioning loop ends and the first batch starts
BatchSplitDone ==
  /\ bPc = "split"
  /\ ~(bI < Len(bRequests))
  /\ results' = results
  /\ StartBatch(1)
  /\ UNCHANGED <<bRequests, bConcurrency, bI, batches, tResult, settleOrder>>
  /\ UNCHANGED notBatch

\* lines 223-224: generateVideo returns the job id, pollJobStatus starts
TaskSubmitted(k) ==
  /\ tPc[k] = "submitting"
  /\ tPc' = [tPc EXCEPT ![k] = "polling"]
  /\ UNCHANGED <<bPc, bRequests, bConcurrency, bI, batches, bIndex, tResult,
                 settleOrder, results, bOutcome>>
  /\ UNCHANGED notBatch

\* lines 224-225: pollJobStatus returns `response`, the task fulfils
TaskFulfils(k, response) ==
  /\ tPc[k] = "polling"
  /\ tPc' = [tPc EXCEPT ![k] = "fulfilled"]
  /\ tResult' = [tResult EXCEPT ![k] = response]
  /\ settleOrder' = Append(settleOrder, k)
  /\ UNCHANGED <<bPc, bRequests, bConcurrency, bI, batches, bIndex, results,
                 bOutcome>>
  /\ UNCHANGED notBatch

\* a task rejects and the join of its batch does not reject with it
TaskRejectsUnjoined(k, error) ==
  /\ \/ tPc[k] = "submitting" /\ error \in SubmitErrors
     \/ tPc[k] = "polling" /\ error \in PollErrors(k)
  /\ tPc' = [tPc EXCEPT ![k] = "rejected"]
  /\ tResult' = [tResult EXCEPT ![k] = [kind |-> "thrown", error |-> error]]
  /\ settleOrder' = Append(settleOrder, k)
  /\ UNCHANGED <<bPc, bOutcome, bRequests, bConcurrency, bI, batches, bIndex, results>>
  /\ UNCHANGED notBatch

\* lines 223-224 and 254-256: generateVideo or pollJobStatus throws `error`,
\* the task rejects; Promise.all rejects with the first rejection of the batch
\* and generateBatch, still awaiting it, rejects with that error
TaskRejects(k, error) ==
  /\ \/ tPc[k] = "submitting" /\ error \in SubmitErrors
     \/ tPc[k] = "polling" /\ error \in PollErrors(k)
  /\ tPc' = [tPc EXCEPT ![k] = "rejected"]
  /\ tResult' = [tResult EXCEPT ![k] = [kind |-> "thrown", error |-> error]]
  /\ settleOrder' = Append(settleOrder, k)
  /\ IF bPc = "run"
       THEN /\ bPc' = "rejected"
            /\ bOutcome' = [kind |-> "thrown", error |-> error]
       ELSE UNCHANGED <<bPc, bOutcome>>
  /\ UNCHANGED <<bRequests, bConcurrency, bI, batches, bIndex, results>>
  /\ UNCHANGED notBatch

\* the results of a batch in the order its tasks settled
InSettleOrder(batch) ==
  LET InBatch(k) == k \in Range(batch)
      order == SelectSeq(settleOrder, InBatch)
  IN  [j \in 1..Len(order) |-> tResult[order[j]]]

\* the value of Promise.all: the results in the order of the batch
PromiseAll(batch) == [j \in 1..Len(batch) |-> tResult[batch[j]]]

\* a promise that fulfils as soon as one task of the batch has fulfilled
AnyFulfilled(batch) == \E k \in Range(batch) : tPc[k] = "fulfilled"

\* lines 254-256: the promise of Promise.all fulfils when every task of the
\* batch has fulfilled
AllFulfilled(batch) == \A k \in Range(batch) : tPc[k] = "fulfilled"

\* lines 254-259: every task of the awaited batch has fulfilled; its results
\* are pushed and the next batch starts
BatchJoin ==
  /\ bPc = "run"
  /\ AllFulfilled(batches[bIndex])
  /\ results' = results \o PromiseAll(batches[bIndex])
  /\ StartBatch(bIndex + 1)
  /\ UNCHANGED <<bRequests, bConcurrency, bI, batches, tResult, settleOrder>>
  /\ UNCHANGED notBatch

\* a caller calls generateBatch on a fresh client
BatchCall ==
  /\ bPc = "idle"
  /\ \E n \in 0..MaxItems, concurrency \in 1..MaxConcurrency :
        GenerateBatchCall([k \in 1..n |-> k], concurrency)
  /\ UNCHANGED notBatch

TaskSubmit == \E k \in Items : TaskSubmitted(k)

TaskFulfil == \E k \in Items : \E response \in TaskResponses(k) : TaskFulfils(k, response)

TaskReject == \E k \in Items : \E error \in SubmitErrors \cup PollErrors(k) :
                 TaskRejects(k, error)

NextBatch ==
  \/ BatchCall
  \/ BatchSplitStep
  \/ BatchSplitDone
  \/ TaskSubmit
  \/ TaskFulfil
  \/ TaskReject
  \/ BatchJoin

----------------------------------------------------------------------------
(* utils/retry: withBatchRetry *)

(* Inputs of the withBatchRetry specification *)

\* the largest number of tasks of one withBatchRetry call
MaxTasks == 3

Tasks == 1..MaxTasks

BatchRetryConfigs ==
  {[defaultRetryConfig EXCEPT !.maxRetries = m] : m \in {0, 1}}

\* what a task can reject with, and what it can fulfil with
TaskErrors == {E_RateLimit, E_Api}
TaskValues == {"a", "b"}

\* lines 110-114 for the context `Task ${index + 1}`; k is index + 1
TaskExhaustedMessage(k, config, lastError) ==
  <<"Task ">> \o NumToString(k) \o <<": ">> \o NumToString(config.maxRetries)
     \o <<" retries, still failing: ">> \o lastError.message

NotSettled == [status |-> "pending"]

IdleBatchRetry ==
  /\ wbPc = "idle"
  /\ wbConfig = defaultRetryConfig
  /\ wbTasks = 0
  /\ kPc = [k \in Tasks |-> "none"]
  /\ kAttempt = [k \in Tasks |-> 0]
  /\ kSettled = [k \in Tasks |-> NotSettled]
  /\ wbOutcome = NoOutcome

\* lines 126-137: withBatchRetry(tasks, config) is called; tasks.map starts
\* one withRetry per task
WithBatchRetryCall ==
  /\ wbPc = "idle"
  /\ \E n \in 0..MaxTasks, config \in BatchRetryConfigs :
        /\ wbTasks' = n
        /\ wbConfig' = config
        /\ kPc' = [k \in Tasks |-> IF k <= n THEN "loop" ELSE "none"]
  /\ wbPc' = "run"
  /\ UNCHANGED <<kAttempt, kSettled, wbOutcome>>
  /\ UNCHANGED notBatchRetry

\* part_001 lines 75-86 for task k: the backoff sleep of a retry, then fn()
TaskRetryInvokes(k) ==
  /\ kPc[k] = "loop"
  /\ kAttempt[k] <= wbConfig.maxRetries
  /\ kPc' = [kPc EXCEPT ![k] = "awaiting"]
  /\ UNCHANGED <<wbPc, wbConfig, wbTasks, kAttempt, kSettled, wbOutcome>>
  /\ UNCHANGED notBatchRetry

\* part_001 line 86 for task k: fn() fulfils, the withRetry promise fulfils
TaskRetryFulfils(k, v) ==
  /\ kPc[k] = "awaiting"
  /\ kPc' = [kPc EXCEPT ![k] = "fulfilled"]
  /\ kSettled' = [kSettled EXCEPT ![k] = [status |-> "fulfilled", value |-> v]]
  /\ UNCHANGED <<wbPc, wbConfig, wbTasks, kAttempt, wbOutcome>>
  /\ UNCHANGED notBatchRetry

\* part_001 lines 87-114 for task k: fn() rejects with `error`
TaskRetryRejects(k, error) ==
  /\ kPc[k] = "awaiting"
  /\ IF ~isRetryableError(error, wbConfig.retryableErrors)
       THEN /\ kPc' = [kPc EXCEPT ![k] = "rejected"]
            /\ kSettled' = [kSettled EXCEPT
                               ![k] = [status |-> "rejected", reason |-> error]]
            /\ UNCHANGED kAttempt
       ELSE IF kAttempt[k] = wbConfig.maxRetries
       THEN /\ kPc' = [kPc EXCEPT ![k] = "rejected"]
            /\ kSettled' = [kSettled EXCEPT
                               ![k] = [status |-> "rejected",
                                       reason |-> ErrorObj("Error",
                                          TaskExhaustedMessage(k, wbConfig, error))]]
            /\ UNCHANGED kAttempt
       ELSE /\ kPc' = [kPc EXCEPT ![k] = "loop"]
            /\ kAttempt' = [kAttempt EXCEPT ![k] = kAttempt[k] + 1]
            /\ UNCHANGED kSettled
  /\ UNCHANGED <<wbPc, wbConfig, wbTasks, wbOutcome>>
  /\ UNCHANGED notBatchRetry

\* lines 142-148: the values of the fulfilled results, in the order of results
RECURSIVE Successful(_)
Successful(settled) ==
  IF settled = <<>> THEN <<>>
  ELSE LET rest == Successful(SubSeq(settled, 1, Len(settled) - 1))
           last == settled[Len(settled)]
       IN  IF last.status = "fulfilled" THEN Append(rest, last.value) ELSE rest

\* the failed list with the positions counted from 1
RECURSIVE FailedOneBased(_)
FailedOneBased(settled) ==
  IF settled = <<>> THEN <<>>
  ELSE LET rest == FailedOneBased(SubSeq(settled, 1, Len(settled) - 1))
           last == settled[Len(settled)]
       IN  IF last.status = "fulfilled" THEN rest
           ELSE Append(rest, [index |-> Len(settled), error |-> last.reason])

\* lines 142-148: the rejected results with their index (0-based), in the
\* order of results
RECURSIVE Failed(_)
Failed(settled) ==
  IF settled = <<>> THEN <<>>
  ELSE LET rest == Failed(SubSeq(settled, 1, Len(settled) - 1))
           last == settled[Len(settled)]
       IN  IF last.status = "fulfilled" THEN rest
           ELSE Append(rest, [index |-> Len(settled) - 1, error |-> last.reason])

\* lines 133-150: every withRetry promise has settled, Promise.allSettled
\* fulfils and withBatchRetry returns the two lists
WithBatchRetryReturns ==
  /\ wbPc = "run"
  /\ \A k \in 1..wbTasks : kPc[k] \in {"fulfilled", "rejected"}
  /\ LET allSettled == [k \in 1..wbTasks |-> kSettled[k]]
     IN  wbOutcome' = [kind |-> "returned",
                       value |-> [successful |-> Successful(allSettled),
                                  failed |-> Failed(allSettled)]]
  /\ wbPc' = "returned"
  /\ UNCHANGED <<wbConfig, wbTasks, kPc, kAttempt, kSettled>>
  /\ UNCHANGED notBatchRetry

TaskRetryInvoke == \E k \in Tasks : TaskRetryInvokes(k)

TaskRetryFulfil == \E k \in Tasks, v \in TaskValues : TaskRetryFulfils(k, v)

TaskRetryReject == \E k \in Tasks, error \in TaskErrors : TaskRetryRejects(k, error)

NextBatchRetry ==
  \/ WithBatchRetryCall
  \/ TaskRetryInvoke
  \/ TaskRetryFulfil
  \/ TaskRetryReject
  \/ WithBatchRetryReturns

----------------------------------------------------------------------------
(* utils/cost-tracker: SORA2_PRICING and CostTracker. Amounts are in cents. *)

perSecond720p  == 50
perSecond1080p == 100
minimumCharge  == 500
monthlyBudget  == 500000

perSecond(resolution) ==
  IF resolution = "720p" THEN perSecond720p ELSE perSecond1080p

calculateVideoCostNoMinimum(duration, resolution) ==
  duration * perSecond(resolution)

calculateVideoCost(duration, resolution) ==
  LET perSecondCost  == perSecond(resolution)
      calculatedCost == duration * perSecondCost
  IN  Max(calculatedCost, minimumCharge)

\* a budget warning that starts above 90% only
BudgetWarningAbove(total, budget) == total * 100 > 90 * budget

\* lines 72-73: usagePercent = (totalCost / monthlyBudget) * 100 >= 90
BudgetWarning(total, budget) == total * 100 >= 90 * budget

\* recordCost keeping two entries of one amount
RecordCostTwice(amount, description) ==
  /\ totalCost' = totalCost + amount
  /\ costs' = costs \o [j \in 1..2 |-> [timestamp |-> clock, amount |-> amount,
                                       description |-> description]]
  /\ cWarned' = BudgetWarning(totalCost', cBudget)
  /\ UNCHANGED cBudget

\* recordCost charging the amount without keeping an entry of it
RecordCostUnlisted(amount, description) ==
  /\ totalCost' = totalCost + amount
  /\ cWarned' = BudgetWarning(totalCost', cBudget)
  /\ UNCHANGED <<costs, cBudget>>

\* recordCost(amount, description), lines 61-82
RecordCost(amount, description) ==
  /\ totalCost' = totalCost + amount
  /\ costs' = Append(costs, [timestamp |-> clock, amount |-> amount,
                             description |-> description])
  /\ cWarned' = BudgetWarning(totalCost', cBudget)
  /\ UNCHANGED cBudget

\* getRemainingBudget(), lines 94-96
getRemainingBudget == Max(0, cBudget - totalCost)

\* a budget test that is true only above the budget
isAboveBudget == totalCost > cBudget

\* isOverBudget(), lines 101-103
isOverBudget == totalCost >= cBudget

\* getCostHistory(), lines 140-149: a copy of the entries
getCostHistory == costs

RECURSIVE SumAmounts(_)
SumAmounts(entries) ==
  IF entries = <<>> THEN 0 ELSE Head(entries).amount + SumAmounts(Tail(entries))

\* the ledger of a fresh CostTracker with the default budget
InitLedger ==
  /\ totalCost = 0
  /\ costs = <<>>
  /\ cBudget = monthlyBudget
  /\ cWarned = FALSE

(* Inputs of the CostTracker specification *)

\* the largest number of entries recorded in the ledger
MaxLedgerEntries == 3

\* video lengths in seconds, and the resolutions of the pricing table
Durations == {3, 10, 20}
Resolutions == {"720p", "1080p"}

\* the amounts callers record
RecordedAmounts == {minimumCharge, 4 * minimumCharge}

\* no calculateVideoCost call made yet
NoCostCalls == cCalls = {}

\* lines 44-53: a caller applies calculateVideoCost(duration, resolution)
CalculateVideoCostCall ==
  /\ \E duration \in Durations, resolution \in Resolutions :
        cCalls' = cCalls \cup {[duration |-> duration, resolution |-> resolution,
                                cost |-> calculateVideoCost(duration, resolution)]}
  /\ UNCHANGED ledgerVars
  /\ UNCHANGED notLedger

\* the monthlyBudget argument of the constructor: the default, or 50.00
TrackerBudgets == {monthlyBudget, 10 * minimumCharge}

\* lines 24-35: new CostTracker(monthlyBudget)
NewCostTracker ==
  /\ totalCost = 0
  /\ costs = <<>>
  /\ cBudget \in TrackerBudgets
  /\ cWarned = FALSE

\* lines 61-82: a caller applies recordCost(amount, description)
RecordCostCall ==
  /\ Len(costs) < MaxLedgerEntries
  /\ \E amount \in RecordedAmounts : RecordCost(amount, <<"video">>)
  /\ UNCHANGED cCalls
  /\ UNCHANGED notLedger

\* lines 154-157: reset()
ResetCall ==
  /\ totalCost' = 0
  /\ costs' = <<>>
  /\ UNCHANGED <<cBudget, cWarned>>
  /\ UNCHANGED cCalls
  /\ UNCHANGED notLedger

NextLedger ==
  \/ CalculateVideoCostCall
  \/ RecordCostCall
  \/ ResetCall

----------------------------------------------------------------------------
(* core/UGCAdGenerator: generate. The validator, the policy checker and the *)
(* quality scorer are collaborators: only their results are modelled.       *)

\* a request without a duration
NoDuration == 0

\* String.prototype.padStart on a sequence of characters
RECURSIVE PadStart(_, _, _)
PadStart(chars, targetLength, fill) ==
  IF Len(chars) >= targetLength THEN chars
  ELSE PadStart(<<fill>> \o chars, targetLength, fill)

\* the ad id numbered from 0
AdIdZeroBased(index) == <<"ad-">> \o PadStart(NumToString(index), 3, "0")

\* `ad-${String(index + 1).padStart(3, '0')}`
AdId(index) == <<"ad-">> \o PadStart(NumToString(index + 1), 3, "0")

\* request.duration || 10
DurationOf(request) == IF request.duration = NoDuration THEN 10 ELSE request.duration

\* this.config.defaultResolution || '1080p'
ResolutionOf(config) ==
  IF config.defaultResolution = Undefined THEN "1080p" ELSE config.defaultResolution

DefaultStyles == <<"casual", "testimonial", "tutorial", "unboxing", "lifestyle",
                   "comparison">>

\* buildVariedPrompt(style, 'product', {framing, tone, pacing})
buildVariedPrompt(style, framing, tone, pacing) ==
  <<style, "product", tone, framing, pacing>>

\* line 210: tone
Tone(i) == IF i % 2 = 0 THEN "energetic" ELSE "friendly"

\* a pacing that rounds half the number of ads down
PacingFloor(i, numberOfAds) == IF i < numberOfAds \div 2 THEN "medium" ELSE "short"

\* line 211: pacing; i < numberOfAds / 2 is 2 * i < numberOfAds
Pacing(i, numberOfAds) == IF 2 * i < numberOfAds THEN "medium" ELSE "short"

\* lines 182-219; the plan of item i (0-based) is element i + 1
createGenerationPlan(request) ==
  LET allStyles    == IF request.ugcStyle = <<>> THEN DefaultStyles ELSE request.ugcStyle
      aspectRatios == request.targetAspectRatio
  IN  [k \in 1..request.numberOfAds |->
         LET i           == k - 1
             style       == allStyles[(i % Len(allStyles)) + 1]
             aspectRatio == aspectRatios[(i % Len(aspectRatios)) + 1]
             tone        == Tone(i)
             pacing      == Pacing(i, request.numberOfAds)
         IN  [ugcStyle |-> style, aspectRatio |-> aspectRatio,
              prompt |-> buildVariedPrompt(style, aspectRatio, tone, pacing)]]

MIN_QUALITY_SCORE == 70

\* the quality gate letting only scores above the minimum pass
BelowOrAtMinimum(overall) == overall <= MIN_QUALITY_SCORE

\* line 122: qualityScore.overall < 70
BelowMinimum(overall) == overall < MIN_QUALITY_SCORE

\* Array.prototype.join on a sequence of texts
RECURSIVE Join(_, _)
Join(texts, separator) ==
  IF Len(texts) <= 1 THEN texts
  ELSE <<Head(texts), separator>> \o Join(Tail(texts), separator)

\* a local not assigned yet
NoResult == [isValid |-> FALSE, isCompliant |-> FALSE, riskLevel |-> Undefined,
             errors |-> <<>>, details |-> <<>>]

\* VideoValidator.validate: isValid = (errors.length === 0)
ValidationResultOf(errors) ==
  [isValid |-> errors = <<>>, isCompliant |-> FALSE, riskLevel |-> Undefined,
   errors |-> errors, details |-> <<>>]

\* the policy checker treating a medium risk as compliant
PolicyResultLenient(hasRealPersons, hasCopyrightedCharacters, hasInappropriateContent, hasBrandLogos) ==
  LET high      == hasRealPersons \/ hasCopyrightedCharacters
                     \/ hasInappropriateContent
      riskLevel == IF high THEN "high" ELSE IF hasBrandLogos THEN "medium" ELSE "safe"
      details   == (IF hasRealPersons THEN <<"real person detected">> ELSE <<>>)
                     \o (IF hasCopyrightedCharacters
                            THEN <<"copyrighted character detected">> ELSE <<>>)
                     \o (IF hasInappropriateContent
                            THEN <<"inappropriate content detected">> ELSE <<>>)
                     \o (IF hasBrandLogos THEN <<"brand logo detected">> ELSE <<>>)
  IN  [isValid |-> FALSE, isCompliant |-> riskLevel # "high",
       riskLevel |-> riskLevel, errors |-> <<>>, details |-> details]

\* ContentPolicyChecker.check, part_002 lines 203-243; the texts stand for
\* the Japanese detail strings
PolicyResult(hasRealPersons, hasCopyrightedCharacters, hasInappropriateContent, hasBrandLogos) ==
  LET high      == hasRealPersons \/ hasCopyrightedCharacters
                     \/ hasInappropriateContent
      riskLevel == IF high THEN "high" ELSE IF hasBrandLogos THEN "medium" ELSE "safe"
      details   == (IF hasRealPersons THEN <<"real person detected">> ELSE <<>>)
                     \o (IF hasCopyrightedCharacters
                            THEN <<"copyrighted character detected">> ELSE <<>>)
                     \o (IF hasInappropriateContent
                            THEN <<"inappropriate content detected">> ELSE <<>>)
                     \o (IF hasBrandLogos THEN <<"brand logo detected">> ELSE <<>>)
  IN  [isValid |-> FALSE, isCompliant |-> riskLevel = "safe",
       riskLevel |-> riskLevel, errors |-> <<>>, details |-> details]

\* ContentPolicyChecker.check when a detector throws, part_002 lines 244-255
PolicyCheckFailed ==
  [isValid |-> FALSE, isCompliant |-> FALSE, riskLevel |-> "high",
   errors |-> <<>>, details |-> <<"check error: detector failed">>]

\* one entry of the call history; index and overall are -1 when they do not apply
CallOf(call, index, overall) == [call |-> call, index |-> index, overall |-> overall]

(* Inputs of the generate specification *)

\* the number of entries earlier generate calls have left in the ledger
MaxPriorEntries == 1

GeneratorConfigs == {[defaultResolution |-> r] : r \in {Undefined, "720p"}}

GenerationRequests ==
  {[numberOfAds |-> n, duration |-> d, ugcStyle |-> <<>>,
    targetAspectRatio |-> <<"9:16", "16:9">>] :
      n \in 1..MaxItems, d \in {NoDuration, 20}}

\* overall scores of the quality scorer: 100 minus the deductions
\* {15, 20}, {10, 20} and {15}
ScorerResults == {65, 70, 85}

\* the errors the validator can report
ValidationErrors == {<<>>, <<"unsupported format">>,
                     <<"duration too long", "file too large">>}

\* the durations of the requests of earlier generate calls, in seconds: the
\* default, and two that bring a 720p ledger within one minimum charge of 90%
\* of the default budget and of the budget itself
PriorDurations == {10, 8990, 9990}

\* the ledger after `n` earlier items of `duration` seconds were generated
\* under `config`
PriorLedger(config, n, duration) ==
  [k \in 1..n |-> [timestamp |-> 0,
                   amount |-> calculateVideoCost(duration, ResolutionOf(config)),
                   description |-> <<"Ad ">> \o NumToString(k) \o <<" generated">>]]

InitGen ==
  /\ gConfig \in GeneratorConfigs
  /\ \E n \in 0..MaxPriorEntries, duration \in PriorDurations :
        /\ costs = PriorLedger(gConfig, n, duration)
        /\ totalCost = SumAmounts(costs)
  /\ cBudget = monthlyBudget
  /\ cWarned = (costs # <<>> /\ BudgetWarning(totalCost, cBudget))
  /\ gPc = "idle"
  /\ gRequest = [numberOfAds |-> 0, duration |-> NoDuration, ugcStyle |-> <<>>,
                 targetAspectRatio |-> <<>>]
  /\ generationPlan = <<>>
  /\ sora2Responses = <<>>
  /\ gIndex = 0
  /\ generatedAds = <<>>
  /\ failedAds = <<>>
  /\ gOutcome = NoOutcome
  /\ validationResult = NoResult
  /\ policyCheckResult = NoResult
  /\ gCalls = <<>>

\* the variables of a generator on which generate is not called
IdleGen ==
  /\ gConfig = [defaultResolution |-> Undefined]
  /\ gPc = "idle"
  /\ gRequest = [numberOfAds |-> 0, duration |-> NoDuration, ugcStyle |-> <<>>,
                 targetAspectRatio |-> <<>>]
  /\ generationPlan = <<>>
  /\ sora2Responses = <<>>
  /\ gIndex = 0
  /\ generatedAds = <<>>
  /\ failedAds = <<>>
  /\ gOutcome = NoOutcome
  /\ validationResult = NoResult
  /\ policyCheckResult = NoResult
  /\ gCalls = <<>>

\* lines 55-67: generate(request) is called and awaits the validator
Generate ==
  /\ gPc = "idle"
  /\ \E request \in GenerationRequests : gRequest' = request
  /\ gPc' = "validate"
  /\ gCalls' = Append(gCalls, CallOf("validate", -1, -1))
  /\ UNCHANGED <<gConfig, generationPlan, sora2Responses, gIndex, generatedAds,
                 failedAds, gOutcome, validationResult, policyCheckResult>>
  /\ UNCHANGED <<batchVars, ledgerVars>>
  /\ UNCHANGED notGen

\* lines 67-75: the validator answers
ValidateSource ==
  /\ gPc = "validate"
  /\ \E errors \in ValidationErrors :
        validationResult' = ValidationResultOf(errors)
  /\ IF validationResult'.isValid
       THEN /\ gPc' = "policy"
            /\ gCalls' = Append(gCalls, CallOf("check", -1, -1))
            /\ UNCHANGED gOutcome
       ELSE /\ gPc' = "thrown"
            /\ gOutcome' = [kind |-> "thrown",
                            error |-> ErrorObj("Error",
                               <<"validation failed: ">>
                                  \o Join(validationResult'.errors, ", "))]
            /\ UNCHANGED gCalls
  /\ UNCHANGED <<gConfig, gRequest, generationPlan, sora2Responses, gIndex,
                 generatedAds, failedAds, policyCheckResult>>
  /\ UNCHANGED <<batchVars, ledgerVars>>
  /\ UNCHANGED notGen

\* lines 75-99: the policy checker answers; on a compliant source the plan is
\* built and generateBatch is called with concurrency 3
PolicyCheckSource ==
  /\ gPc = "policy"
  /\ \/ \E persons, characters, content, logos \in BOOLEAN :
           policyCheckResult' = PolicyResult(persons, characters, content, logos)
     \/ policyCheckResult' = PolicyCheckFailed
  /\ IF policyCheckResult'.isCompliant
       THEN /\ generationPlan' = createGenerationPlan(gRequest)
            /\ GenerateBatchCall([k \in 1..Len(generationPlan') |-> k], 3)
            /\ gCalls' = Append(gCalls, CallOf("generateBatch", -1, -1))
            /\ gPc' = "batch"
            /\ UNCHANGED gOutcome
       ELSE /\ gPc' = "thrown"
            /\ gOutcome' = [kind |-> "thrown",
                            error |-> ErrorObj("Error",
                               <<"policy violation: ">>
                                  \o Join(policyCheckResult'.details, ", "))]
            /\ UNCHANGED <<generationPlan, batchVars, gCalls>>
  /\ UNCHANGED <<gConfig, gRequest, sora2Responses, gIndex, generatedAds, failedAds,
                 validationResult>>
  /\ UNCHANGED ledgerVars
  /\ UNCHANGED notGen

\* lines 90-104: the await of generateBatch ends: with its results, and the
\* scoring loop starts, or with its rejection, which generate does not catch
GenerateBatchSettles ==
  /\ gPc = "batch"
  /\ bPc \in {"returned", "rejected"}
  /\ IF bPc = "returned"
       THEN /\ sora2Responses' = bOutcome.value
            /\ gPc' = "score"
            /\ UNCHANGED gOutcome
       ELSE /\ gPc' = "thrown"
            /\ gOutcome' = bOutcome
            /\ UNCHANGED sora2Responses
  /\ gIndex' = 0
  /\ generatedAds' = <<>>
  /\ failedAds' = <<>>
  /\ UNCHANGED <<gConfig, gRequest, generationPlan, validationResult,
                 policyCheckResult, gCalls>>
  /\ UNCHANGED <<batchVars, ledgerVars>>
  /\ UNCHANGED notGen

FailedAd(index, error, errorCode) ==
  [id |-> AdId(index), error |-> error, errorCode |-> errorCode,
   prompt |-> generationPlan[index + 1].prompt]

\* lines 106-158: one iteration of the scoring loop, for the response at
\* gIndex; `overall` is the score the quality scorer gives when it is asked
ScoreResponse(overall) ==
  /\ gPc = "score"
  /\ gIndex < Len(sora2Responses)
  /\ LET index    == gIndex
         response == sora2Responses[index + 1]
         plan     == generationPlan[index + 1]
         cost     == calculateVideoCost(DurationOf(gRequest), ResolutionOf(gConfig))
     IN  IF response.status = "failed" \/ response.videoUrl = Undefined
           THEN /\ failedAds' = Append(failedAds,
                     FailedAd(index,
                              IF response.error = Undefined THEN "generation failed"
                                                            ELSE response.error,
                              "GenerationFailed"))
                /\ UNCHANGED <<generatedAds, ledgerVars, gCalls>>
           ELSE IF BelowMinimum(overall)
           THEN /\ gCalls' = Append(gCalls, CallOf("score", index, overall))
                /\ failedAds' = Append(failedAds,
                     FailedAd(index, "quality score too low", "QualityTooLow"))
                /\ UNCHANGED <<generatedAds, ledgerVars>>
           ELSE /\ gCalls' = Append(gCalls, CallOf("score", index, overall))
                /\ RecordCost(cost, <<"Ad ">> \o NumToString(index + 1)
                                      \o <<" generated">>)
                /\ generatedAds' = Append(generatedAds,
                     [id |-> AdId(index), videoUrl |-> response.videoUrl,
                      duration |-> DurationOf(gRequest),
                      aspectRatio |-> plan.aspectRatio, ugcStyle |-> plan.ugcStyle,
                      prompt |-> plan.prompt, qualityScore |-> overall,
                      metadata |-> [resolution |-> ResolutionOf(gConfig),
                                    cost |-> cost]])
                /\ UNCHANGED failedAds
  /\ gIndex' = gIndex + 1
  /\ UNCHANGED <<gConfig, gPc, gRequest, generationPlan, sora2Responses, gOutcome,
                 validationResult, policyCheckResult>>
  /\ UNCHANGED batchVars
  /\ UNCHANGED notGen

ScoreNext == \E overall \in ScorerResults : ScoreResponse(overall)

\* getTotalCost(), lines 87-89
getTotalCost == totalCost

\* lines 160-177: the loop is over, generate returns the aggregate
GenerateReturns ==
  /\ gPc = "score"
  /\ gIndex = Len(sora2Responses)
  /\ gPc' = "returned"
  /\ gOutcome' = [kind |-> "returned",
                  value |-> [generatedAds |-> generatedAds,
                             failedAds |-> failedAds,
                             totalCost |-> getTotalCost]]
  /\ UNCHANGED <<gConfig, gRequest, generationPlan, sora2Responses, gIndex,
                 generatedAds, failedAds, validationResult, policyCheckResult,
                 gCalls>>
  /\ UNCHANGED <<batchVars, ledgerVars>>
  /\ UNCHANGED notGen

NextGen ==
  \/ Generate
  \/ ValidateSource
  \/ PolicyCheckSource
  \/ BatchSplitStep
  \/ BatchSplitDone
  \/ TaskSubmit
  \/ TaskFulfil
  \/ TaskReject
  \/ BatchJoin
  \/ GenerateBatchSettles
  \/ ScoreNext
  \/ GenerateReturns

----------------------------------------------------------------------------
(* api/sora2-client: the constructor and generate (generateVideo, then      *)
(* pollJobStatus); core/UGCAdGenerator: the constructor                     *)

\* a key test that only rejects a missing key
IsUndefined(apiKey) == apiKey = Undefined

\* !apiKey: undefined and the empty string are falsy
Falsy(apiKey) == apiKey \in {Undefined, ""}

\* the error of part_004 line 36; the text stands for the Japanese message
MissingKeyError == ErrorObj("Error", <<"OPENAI_API_KEY is not set">>)

\* the error of part_004 line 127
NoJobIdError == ErrorObj("Error", <<"Sora2 API: no job id">>)

(* Inputs of the specification of one item *)

ApiKeys == {Undefined, "", "sk-key"}

\* the optional retryConfig argument of the constructors: absent, or given
ClientRetryConfigs == {<<>>, <<[defaultRetryConfig EXCEPT !.maxRetries = 1]>>}

\* what the fetch of generateVideo can reject with (part_004 lines 108-117)
FetchErrors == {E_RateLimit, E_Timeout, E_Api}

\* the body of a successful response (part_004 lines 119-125)
FetchResponses == {[id |-> JobId], [id |-> Undefined]}

\* the status responses of a service that reports no progress
PlainStatusResponses == {status \in StatusResponses : status.progress = NoProgress}

InitItem ==
  /\ cOutcome = NoOutcome
  /\ iOutcome = NoOutcome
  /\ iPollCalls = 0

\* part_004 lines 34-40: new Sora2APIClient(apiKey, retryConfig), called by
\* `ctor`: directly, or by the constructor of UGCAdGenerator (line 37)
Sora2APIClientConstructor(ctor, apiKey, retryConfig) ==
  IF Falsy(apiKey)
    THEN /\ cOutcome' = [kind |-> "thrown", ctor |-> ctor, apiKey |-> apiKey,
                         error |-> MissingKeyError]
         /\ UNCHANGED rConfig
    ELSE /\ cOutcome' = [kind |-> "constructed", ctor |-> ctor, apiKey |-> apiKey,
                         error |-> NoError]
         /\ rConfig' = IF retryConfig = <<>> THEN defaultRetryConfig
                                             ELSE Head(retryConfig)

\* a caller constructs a Sora2APIClient
NewSora2APIClient ==
  /\ cOutcome = NoOutcome
  /\ \E apiKey \in ApiKeys, retryConfig \in ClientRetryConfigs :
        Sora2APIClientConstructor("Sora2APIClient", apiKey, retryConfig)
  /\ UNCHANGED <<rContext, rPc, rAttempt, rInvocations, rSleeps, rLastError,
                 rRaised, rOutcome, bCall>>
  /\ UNCHANGED <<clock, pollVars, rateVars, batchVars, batchRetryVars, ledgerVars,
                 cCalls, genVars, iOutcome, iPollCalls,
                 planVars, instVars>>

\* UGCAdGenerator.ts lines 35-47: a caller constructs a UGCAdGenerator; the
\* client is constructed first, the CostTracker last
NewUGCAdGenerator ==
  /\ cOutcome = NoOutcome
  /\ \E apiKey \in ApiKeys, retryConfig \in ClientRetryConfigs :
        Sora2APIClientConstructor("UGCAdGenerator", apiKey, retryConfig)
  /\ IF cOutcome'.kind = "constructed"
       THEN /\ totalCost' = 0
            /\ costs' = <<>>
            /\ cBudget' = monthlyBudget
            /\ cWarned' = FALSE
       ELSE UNCHANGED ledgerVars
  /\ UNCHANGED <<rContext, rPc, rAttempt, rInvocations, rSleeps, rLastError,
                 rRaised, rOutcome, bCall>>
  /\ UNCHANGED <<clock, pollVars, rateVars, batchVars, batchRetryVars, cCalls,
                 genVars, iOutcome, iPollCalls,
                 planVars, instVars>>

\* part_004 lines 220-223 and 76-79: generate(request) is called on the
\* constructed client; generateVideo awaits waitForRateLimit
ItemAcquire ==
  /\ cOutcome.kind = "constructed"
  /\ WaitForRateLimitEnter(1)

\* part_004 lines 81-87: admitted, generateVideo calls withRetry
GenerateVideoSubmits ==
  /\ wPc[1] = "admitted"
  /\ rPc = "idle"
  /\ rPc' = "loop"
  /\ rContext' = "Sora2 API generateVideo"
  /\ UNCHANGED <<rConfig, rAttempt, rInvocations, rSleeps, rLastError, rRaised,
                 rOutcome, bCall>>
  /\ UNCHANGED notRetry

\* part_004 lines 89-119: the fetch of one attempt succeeds
FetchFulfils == \E response \in FetchResponses : WithRetryResolve(response)

\* part_004 lines 108-117: the fetch of one attempt fails
FetchRejects == \E error \in FetchErrors : Catch(error)

\* part_004 lines 123-131 and 223-224: withRetry has returned the response;
\* without a job id generateVideo throws, otherwise generate calls pollJobStatus
GenerateVideoReturns ==
  /\ rPc = "returned"
  /\ pPc = "idle"
  /\ iOutcome = NoOutcome
  /\ IF rOutcome.value.id = Undefined
       THEN /\ iOutcome' = [kind |-> "thrown", error |-> NoJobIdError]
            /\ UNCHANGED <<pollVars, iPollCalls>>
       ELSE /\ pPc' = "loop"
            /\ pStartTime' = clock
            /\ pProgress' = 0
            /\ iPollCalls' = iPollCalls + 1
            /\ UNCHANGED <<pQueries, pLastQueryAt, pResponseAt, pWakeAt, pLogged,
                           pStatus, pOutcome, iOutcome>>
  /\ UNCHANGED <<retryVars, clock, rateVars, batchVars, batchRetryVars, ledgerVars,
                 cCalls, genVars, cOutcome,
                 planVars, instVars>>

\* part_004 line 155 for a service that reports no progress and answers
\* after half a polling interval
PlainStatusResolves ==
  \E status \in PlainStatusResponses : PollStatus(status, LatencyUnit)

\* part_004 lines 223-225: generateVideo threw (after withRetry gave up) or
\* pollJobStatus returned or threw; generate settles the same way
ItemSettles ==
  /\ iOutcome = NoOutcome
  /\ \/ rPc = "thrown" /\ iOutcome' = [kind |-> "thrown", error |-> rOutcome.error]
     \/ pPc = "thrown" /\ iOutcome' = [kind |-> "thrown", error |-> pOutcome.error]
     \/ pPc = "returned" /\ iOutcome' = [kind |-> "returned", value |-> pOutcome.value]
  /\ UNCHANGED <<retryVars, clock, pollVars, rateVars, batchVars, batchRetryVars,
                 ledgerVars, cCalls, genVars, cOutcome, iPollCalls,
                 planVars, instVars>>

NextItem ==
  \/ NewSora2APIClient
  \/ NewUGCAdGenerator
  \/ ItemAcquire
  \/ GenerateVideoSubmits
  \/ WithRetryBackoff
  \/ WithRetryInvoke
  \/ FetchFulfils
  \/ FetchRejects
  \/ GenerateVideoReturns
  \/ PollLoopHead
  \/ PlainStatusResolves
  \/ PollStatusRejects
  \/ PollWake
  \/ ItemSettles

----------------------------------------------------------------------------
(* core/UGCAdGenerator: createGenerationPlan applied to requests of its own *)

(* Inputs of the createGenerationPlan specification *)

\* the largest numberOfAds of a request
MaxPlanAds == 10

\* request.ugcStyle: absent (the default styles apply), or one to three styles
PlanStyles == {<<>>, <<"casual">>, <<"casual", "testimonial">>,
               <<"casual", "testimonial", "tutorial">>}

\* request.targetAspectRatio: one to three aspect ratios
PlanAspectRatios == {<<"9:16">>, <<"9:16", "16:9">>, <<"9:16", "16:9", "1:1">>}

PlanRequests ==
  {[numberOfAds |-> n, duration |-> NoDuration, ugcStyle |-> styles,
    targetAspectRatio |-> aspectRatios] :
      n \in 1..MaxPlanAds, styles \in PlanStyles, aspectRatios \in PlanAspectRatios}

NoPlanCall ==
  [request |-> [numberOfAds |-> 0, duration |-> NoDuration, ugcStyle |-> <<>>,
                targetAspectRatio |-> <<>>],
   plan |-> <<>>]

\* no createGenerationPlan call made
IdlePlan == planCall = NoPlanCall

\* UGCAdGenerator.ts line 87: createGenerationPlan(request) is applied
CreateGenerationPlanCall ==
  /\ \E request \in PlanRequests :
        planCall' = [request |-> request, plan |-> createGenerationPlan(request)]
  /\ UNCHANGED <<retryVars, clock, pollVars, rateVars, batchVars, batchRetryVars,
                 ledgerVars, cCalls, genVars, itemVars, instVars>>

NextPlan == CreateGenerationPlanCall

----------------------------------------------------------------------------
(* Several UGCAdGenerator instances: each constructor call makes a          *)
(* Sora2APIClient and a CostTracker of its own (UGCAdGenerator.ts lines     *)
(* 37-41); requestTimestamps, totalCost and costs are instance fields       *)

(* Inputs of the specification of several instances *)

\* the two UGCAdGenerator instances
Instances == {1, 2}

\* the largest number of waitForRateLimit calls made on one instance
MaxInstCalls == 4

\* the largest number of entries recorded in the ledger of one instance
MaxInstEntries == 1

\* one state for every instance: the fields of a class-level singleton
Singleton(g) == 1

\* the object whose fields a method called on instance g reads and writes:
\* `this`
This(g) == g

\* the fields of a constructed generator: part_004 line 32, part_002 lines
\* 25-31; pc, now and wakeAt are the position and locals of the one
\* waitForRateLimit call the instance's client runs at a time, calls the
\* number of such calls made
NewInstance ==
  [requestTimestamps |-> <<>>, pc |-> "idle", now |-> 0, wakeAt |-> 0,
   calls |-> 0, totalCost |-> 0, costs |-> <<>>]

InitInstances ==
  /\ insts = [g \in Instances |-> NewInstance]
  /\ actor = 0

\* the variables of the instances when they are not modelled
IdleInstances ==
  /\ insts = <<>>
  /\ actor = 0

notInst == <<retryVars, pollVars, rateVars, batchVars, batchRetryVars, ledgerVars,
             cCalls, genVars, itemVars, planVars>>

\* time passes, a rate window at a time
InstTick ==
  /\ clock < rateWindow
  /\ clock' = clock + rateWindow
  /\ actor' = 0
  /\ UNCHANGED insts
  /\ UNCHANGED notInst

\* part_004 lines 45-67 up to the first suspension point, on the client of
\* instance g: it returns at once (and the request is submitted) or sleeps
InstAcquire(g) ==
  LET this     == insts[This(g)]
      now      == clock
      filtered == WithinLastMinute(this.requestTimestamps, now)
      waitTime == rateWindow - (now - filtered[1])
  IN  /\ this.pc = "idle"
      /\ this.calls < MaxInstCalls
      /\ IF Len(filtered) >= requestsPerMinute /\ waitTime > 0
           THEN insts' = [insts EXCEPT ![This(g)] =
                            [this EXCEPT !.requestTimestamps = filtered,
                                         !.pc = "sleeping", !.now = now,
                                         !.wakeAt = clock + waitTime,
                                         !.calls = @ + 1]]
           ELSE insts' = [insts EXCEPT ![This(g)] =
                            [this EXCEPT !.requestTimestamps = Append(filtered, now),
                                         !.now = now, !.calls = @ + 1]]
      /\ actor' = g
      /\ UNCHANGED clock
      /\ UNCHANGED notInst

\* part_004 lines 63-67 on the client of instance g: the sleep ends and the
\* `now` read on entry is pushed
InstWake(g) ==
  LET this == insts[This(g)]
  IN  /\ this.pc = "sleeping"
      /\ clock >= this.wakeAt
      /\ insts' = [insts EXCEPT ![This(g)] =
                     [this EXCEPT !.requestTimestamps = Append(@, this.now),
                                  !.pc = "idle"]]
      /\ actor' = g
      /\ UNCHANGED clock
      /\ UNCHANGED notInst

\* part_002 lines 61-67 on the tracker of instance g, as generate calls it
\* (UGCAdGenerator.ts lines 132-137)
InstRecordCost(g) ==
  LET this == insts[This(g)]
  IN  /\ Len(this.costs) < MaxInstEntries
      /\ \E duration \in Durations :
            LET amount == calculateVideoCost(duration, "1080p")
            IN  insts' = [insts EXCEPT ![This(g)] =
                            [this EXCEPT !.totalCost = @ + amount,
                                         !.costs = Append(@,
                                            [timestamp |-> clock, amount |-> amount,
                                             description |-> <<"video">>])]]
      /\ actor' = g
      /\ UNCHANGED clock
      /\ UNCHANGED notInst

InstAcquires == \E g \in Instances : InstAcquire(g)

InstWakes == \E g \in Instances : InstWake(g)

InstRecordsCost == \E g \in Instances : InstRecordCost(g)

NextInstances ==
  \/ InstTick
  \/ InstAcquires
  \/ InstWakes
  \/ InstRecordsCost

----------------------------------------------------------------------------
(* Specifications *)

InitSpecRetry == InitRetry /\ clock = 0 /\ IdlePoll /\ InitRate /\ IdleBatch /\ InitLedger /\ IdleGen /\ IdleBatchRetry /\ NoCostCalls /\ InitItem /\ IdlePlan /\ IdleInstances

SpecRetry == InitSpecRetry /\ [][NextRetry]_vars

InitSpecPoll == InitPoll /\ IdleRetry /\ InitRate /\ IdleBatch /\ InitLedger /\ IdleGen /\ IdleBatchRetry /\ NoCostCalls /\ InitItem /\ IdlePlan /\ IdleInstances

SpecPoll == InitSpecPoll /\ [][NextPoll]_vars

InitSpecRate == InitRate /\ clock = 0 /\ IdleRetry /\ IdlePoll /\ IdleBatch /\ InitLedger /\ IdleGen /\ IdleBatchRetry /\ NoCostCalls /\ InitItem /\ IdlePlan /\ IdleInstances

SpecRate == InitSpecRate /\ [][NextRate]_vars

InitSpecBatch == IdleBatch /\ clock = 0 /\ IdleRetry /\ IdlePoll /\ InitRate /\ InitLedger /\ IdleGen /\ IdleBatchRetry /\ NoCostCalls /\ InitItem /\ IdlePlan /\ IdleInstances

SpecBatch == InitSpecBatch /\ [][NextBatch]_vars

InitSpecGen == InitGen /\ IdleBatch /\ clock = 0 /\ IdleRetry /\ IdlePoll /\ InitRate /\ IdleBatchRetry /\ NoCostCalls /\ InitItem /\ IdlePlan /\ IdleInstances

SpecGen == InitSpecGen /\ [][NextGen]_vars

InitSpecBatchRetry == IdleBatchRetry /\ clock = 0 /\ IdleRetry /\ IdlePoll /\ InitRate /\ IdleBatch /\ InitLedger /\ IdleGen /\ NoCostCalls /\ InitItem /\ IdlePlan /\ IdleInstances

SpecBatchRetry == InitSpecBatchRetry /\ [][NextBatchRetry]_vars

InitSpecLedger == NewCostTracker /\ NoCostCalls /\ clock = 0 /\ IdleRetry /\ IdlePoll /\ InitRate /\ IdleBatch /\ IdleBatchRetry /\ IdleGen /\ InitItem /\ IdlePlan /\ IdleInstances

SpecLedger == InitSpecLedger /\ [][NextLedger]_vars

InitSpecItem == InitItem /\ clock = 0 /\ IdleRetry /\ IdlePoll /\ InitRate /\ IdleBatch /\ IdleBatchRetry /\ InitLedger /\ NoCostCalls /\ IdleGen /\ IdlePlan /\ IdleInstances

SpecItem == InitSpecItem /\ [][NextItem]_vars

InitSpecPlan == IdlePlan /\ clock = 0 /\ IdleRetry /\ IdlePoll /\ InitRate /\ IdleBatch /\ IdleBatchRetry /\ InitLedger /\ NoCostCalls /\ IdleGen /\ InitItem /\ IdleInstances

SpecPlan == InitSpecPlan /\ [][NextPlan]_vars

InitSpecInstances == InitInstances /\ clock = 0 /\ IdleRetry /\ IdlePoll /\ InitRate /\ IdleBatch /\ IdleBatchRetry /\ InitLedger /\ NoCostCalls /\ IdleGen /\ InitItem /\ IdlePlan

SpecInstances == InitSpecInstances /\ [][NextInstances]_vars

----------------------------------------------------------------------------
(* Claims about withRetry and calculateBackoffDelay (SpecRetry) *)

Last(seq) == seq[Len(seq)]

AllRetryable(errors) ==
  \A i \in 1..Len(errors) : isRetryableError(errors[i], rConfig.retryableErrors)

\* C5: when the operation fails with an error that isRetryableError classifies
\* as non-retryable, withRetry has invoked the operation exactly once more
\* than the retries (backoff sleeps) done before, it stops there (no further
\* invocation, no further sleep), and it throws that same error, unwrapped.
C5_NonRetryablePropagates ==
  (rRaised # <<>> /\ ~isRetryableError(Last(rRaised), rConfig.retryableErrors)) =>
     /\ rPc = "thrown"
     /\ rOutcome = [kind |-> "thrown", error |-> Last(rRaised), wrapped |-> FALSE]
     /\ rInvocations = Len(rSleeps) + 1
     /\ rInvocations = Len(rRaised)
     /\ AllRetryable(SubSeq(rRaised, 1, Len(rRaised) - 1))

\* a non-retryable failure of the second retry: a thrown string whose text
\* names a retryable error
C5_Witness ==
  /\ rPc = "thrown"
  /\ Len(rRaised) = 3
  /\ Last(rRaised) = E_String
  /\ rOutcome.error = E_String

\* C6: withRetry invokes the operation at most maxRetries + 1 times; when the
\* first try and all maxRetries retries fail with retryable errors it throws a
\* new wrapped error whose message contains the context label, the retry
\* count maxRetries and the message of the last underlying error, and of no
\* earlier error with another message.
C6_ExhaustionWrapsLastError ==
  /\ rInvocations <= rConfig.maxRetries + 1
  /\ (Len(rRaised) = rConfig.maxRetries + 1 /\ AllRetryable(rRaised)) =>
        /\ rPc = "thrown"
        /\ rOutcome.kind = "thrown"
        /\ rOutcome.wrapped
        /\ rOutcome.error.isError
        /\ rOutcome.error \notin {rRaised[i] : i \in 1..Len(rRaised)}
        /\ Includes(rOutcome.error.message, <<rContext>>)
        /\ Includes(rOutcome.error.message, NumToString(rConfig.maxRetries))
        /\ Includes(rOutcome.error.message, Last(rRaised).message)
        /\ \A i \in 1..Len(rRaised) :
              rRaised[i].message # Last(rRaised).message =>
                 ~Includes(rOutcome.error.message, rRaised[i].message)

\* three retries, all failing, the first failure differing from the last
C6_Witness ==
  /\ rPc = "thrown"
  /\ rOutcome.wrapped
  /\ rConfig.maxRetries = 3
  /\ Len(rRaised) = 4
  /\ rRaised[1] = E_RateLimit
  /\ rRaised[4] = E_Timeout

\* the delays of the default policy, retry 1 to retry 6
DefaultDelays == <<30000, 60000, 120000, 240000, 300000, 300000>>

HasDefaultTiming(config) ==
  /\ config.initialDelay = defaultRetryConfig.initialDelay
  /\ config.backoffMultiplier = defaultRetryConfig.backoffMultiplier
  /\ config.maxDelay = defaultRetryConfig.maxDelay

\* C7 as stated: calculateBackoffDelay called with the attempt numbers 1..6
\* returns 30000, 60000, 120000, 240000, 300000, 300000 under the default
\* policy.
C7_Original_DirectCallOneBased ==
  (bCall # NoCall /\ HasDefaultTiming(rConfig) /\ bCall.attempt \in 1..6) =>
     bCall.delay = DefaultDelays[bCall.attempt]

\* C7 amended: the delay withRetry sleeps before retry k (1-indexed) is
\* min(initialDelay * multiplier^(k-1), maxDelay), which is what
\* calculateBackoffDelay returns for the 0-based argument k-1; under the
\* default policy the retries 1..6 sleep 30000, 60000, 120000, 240000, 300000,
\* 300000 and calculateBackoffDelay(0..5) returns the same values; the slept
\* sequence is non-decreasing and never exceeds maxDelay.
C7_BackoffDelays ==
  /\ \A k \in 1..Len(rSleeps) :
        /\ rSleeps[k] = Min(rConfig.initialDelay
                              * Pow(rConfig.backoffMultiplier, k - 1),
                            rConfig.maxDelay)
        /\ rSleeps[k] <= rConfig.maxDelay
        /\ k > 1 => rSleeps[k - 1] <= rSleeps[k]
        /\ (HasDefaultTiming(rConfig) /\ k <= 6) => rSleeps[k] = DefaultDelays[k]
  /\ (bCall # NoCall /\ HasDefaultTiming(rConfig) /\ bCall.attempt \in 0..5) =>
        bCall.delay = DefaultDelays[bCall.attempt + 1]
  /\ bCall # NoCall =>
        bCall.delay = Min(rConfig.initialDelay
                            * Pow(rConfig.backoffMultiplier, bCall.attempt),
                          rConfig.maxDelay)

\* six retries slept under the default timing, the last two capped
C7_Witness ==
  /\ HasDefaultTiming(rConfig)
  /\ Len(rSleeps) = 6
  /\ rSleeps[5] = 300000
  /\ rSleeps[6] = 300000


----------------------------------------------------------------------------
(* Claims about pollJobStatus (SpecPoll) *)

\* C8: no status query is issued once more than generationTimeout ms have
\* passed since the first poll, and when the loop head finds the elapsed time
\* above generationTimeout with no terminal status seen, pollJobStatus throws
\* an error whose message starts with "APITimeout", which the default policy
\* classifies as retryable, without another status query.
C8_TimeoutStopsPolling ==
  /\ [](pLastQueryAt # -1 => pLastQueryAt - pStartTime <= generationTimeout)
  /\ [][(pPc = "loop" /\ clock - pStartTime > generationTimeout) =>
          /\ pPc' = "thrown"
          /\ Head(pOutcome'.error.message) = "APITimeout"
          /\ isRetryableError(pOutcome'.error, defaultRetryConfig.retryableErrors)
          /\ pQueries' = pQueries]_vars

\* the poller timed out after several status queries
C8_Witness ==
  /\ pPc = "thrown"
  /\ pOutcome.error = TimeoutError(JobId)
  /\ pQueries >= 20
  /\ clock - pStartTime > generationTimeout

\* C9: pollJobStatus never returns a completed result, nor throws
\* GenerationFailed, for a status response received more than
\* generationTimeout ms after the job's first poll.
C9_HardCeiling ==
  (\/ pPc = "returned"
   \/ (pPc = "thrown" /\ Head(pOutcome.error.message) = "GenerationFailed"))
     => pResponseAt - pStartTime <= generationTimeout

----------------------------------------------------------------------------
(* Claims about waitForRateLimit (SpecRate) *)

\* C3: no span of rateWindow ms contains more than requestsPerMinute
\* admissions by the rate limiter: any requestsPerMinute + 1 consecutive
\* admissions are spread over at least rateWindow ms.
C3_AtMostThreePerWindow ==
  \A i \in 1..(Len(admissions) - requestsPerMinute) :
     admissions[i + requestsPerMinute] - admissions[i] >= rateWindow

----------------------------------------------------------------------------
(* Claims about generateBatch (SpecBatch) *)

CeilDiv(n, c) == (n + c - 1) \div c

\* C10: generateBatch partitions the N requests into ceil(N/C) contiguous
\* groups of size <= C, all but the last of size exactly C, and when no task
\* rejects it returns exactly N results, result i being the outcome of
\* request i whatever the order in which the tasks of a group completed.
C10_BatchPartitionAndOrder ==
  /\ bPc \in {"run", "returned", "rejected"} =>
        /\ Len(batches) = CeilDiv(Len(bRequests), bConcurrency)
        /\ Flatten(batches) = bRequests
        /\ \A b \in 1..Len(batches) :
              /\ Len(batches[b]) >= 1
              /\ Len(batches[b]) <= bConcurrency
              /\ b < Len(batches) => Len(batches[b]) = bConcurrency
  /\ bPc = "returned" =>
        /\ bOutcome = [kind |-> "returned", value |-> results]
        /\ Len(results) = Len(bRequests)
        /\ \A i \in 1..Len(results) :
              /\ results[i] = tResult[bRequests[i]]
              /\ results[i].jobId = JobIdOf(bRequests[i])

\* four requests in groups of three returned, the third request having
\* completed first and the first one with a different result
C10_Witness ==
  /\ bPc = "returned"
  /\ Len(bRequests) = 4
  /\ bConcurrency = 3
  /\ Len(batches) = 2
  /\ settleOrder = <<3, 2, 1, 4>>
  /\ results[1].videoUrl # results[3].videoUrl

\* the number of the group request k belongs to
GroupOf(k) == CHOOSE b \in 1..Len(batches) : k \in Range(batches[b])

InFlight == {k \in Range(bRequests) : tPc[k] \in {"submitting", "polling"}}

Settled(k) == tPc[k] \in {"fulfilled", "rejected"}

\* C11: in generateBatch no task of group k+1 has started (its item is not
\* submitting, polling or settled) before every task of group k has settled,
\* and at any moment at most C items are in flight.
C11_GroupsRunSequentially ==
  bPc \in {"run", "returned", "rejected"} =>
     /\ \A j, k \in Range(bRequests) :
           (GroupOf(j) < GroupOf(k) /\ tPc[k] # "none") => Settled(j)
     /\ Cardinality(InFlight) <= bConcurrency

\* the second group of two is in flight, the first group having settled in
\* reverse order
C11_Witness ==
  /\ bPc = "run"
  /\ Len(bRequests) = 4
  /\ bConcurrency = 2
  /\ bIndex = 2
  /\ settleOrder = <<2, 1>>
  /\ tPc[3] = "polling"
  /\ tPc[4] = "submitting"

----------------------------------------------------------------------------
(* Claims about withBatchRetry (SpecBatchRetry) *)

\* the j-th smallest element of a set of numbers
NthOf(set, j) == CHOOSE p \in set : Cardinality({q \in set : q < p}) = j - 1

\* C12: withBatchRetry returns (it has no rejecting outcome) once every one of
\* the N tasks has run to its own outcome, a rejected sibling stopping none;
\* |successful| + |failed| = N, every failed entry carries the 0-based
\* position of its task and that task's error, and the position of every
\* successful value is recovered from the result: the j-th value belongs to
\* the j-th position that no failed entry names.
C12_BatchRetryCapturesEveryOutcome ==
  /\ wbPc \in {"idle", "run", "returned"}
  /\ wbPc = "returned" =>
        LET successful == wbOutcome.value.successful
            failed     == wbOutcome.value.failed
            named      == {failed[j].index : j \in 1..Len(failed)}
            unnamed    == (0..(wbTasks - 1)) \ named
        IN  /\ wbOutcome.kind = "returned"
            /\ \A k \in 1..wbTasks : kPc[k] \in {"fulfilled", "rejected"}
            /\ Len(successful) + Len(failed) = wbTasks
            /\ Cardinality(named) = Len(failed)
            /\ \A j \in 1..Len(failed) :
                  /\ failed[j].index \in 0..(wbTasks - 1)
                  /\ kPc[failed[j].index + 1] = "rejected"
                  /\ failed[j].error = kSettled[failed[j].index + 1].reason
            /\ Cardinality(unnamed) = Len(successful)
            /\ \A j \in 1..Len(successful) :
                  /\ kPc[NthOf(unnamed, j) + 1] = "fulfilled"
                  /\ successful[j] = kSettled[NthOf(unnamed, j) + 1].value

\* three tasks: the first rejected with a non-retryable error, the second
\* fulfilled after one retry, the third rejected after its retry failed too;
\* the only successful value is the one of position 1
C12_Witness ==
  /\ wbPc = "returned"
  /\ wbTasks = 3
  /\ wbConfig.maxRetries = 1
  /\ kSettled[1] = [status |-> "rejected", reason |-> E_Api]
  /\ kPc[2] = "fulfilled" /\ kAttempt[2] = 1
  /\ kPc[3] = "rejected" /\ kAttempt[3] = 1
  /\ wbOutcome.value.successful = <<kSettled[2].value>>
  /\ Len(wbOutcome.value.failed) = 2
  /\ wbOutcome.value.failed[2].index = 2

----------------------------------------------------------------------------
(* Claims about UGCAdGenerator.generate (SpecGen) *)

DigitValue(char) == CHOOSE d \in 0..9 : DigitChar(d) = char

RECURSIVE ParseInt(_)
\* the number a sequence of decimal digits denotes
ParseInt(chars) ==
  IF chars = <<>> THEN 0
  ELSE 10 * ParseInt(SubSeq(chars, 1, Len(chars) - 1)) + DigitValue(chars[Len(chars)])

\* the ordinal an ad id "ad-NNN" names
OrdinalOf(id) == ParseInt(Tail(id))

IsJobFailure(error) ==
  Head(error.message) \in {"GenerationFailed", "APITimeout"}

\* C1: once validation and the policy check have passed, generate does not
\* throw because of one item's terminal generation failure (remote status
\* "failed", or the poller's timeout): the call returns an aggregate in which
\* the failing item is in failedAds with errorCode GenerationFailed.
C1_ItemFailureIsCaptured ==
  \A k \in Items :
     (tPc[k] = "rejected" /\ IsJobFailure(tResult[k].error)) =>
        /\ gPc # "thrown"
        /\ gPc = "returned" =>
              \E j \in 1..Len(gOutcome.value.failedAds) :
                 /\ OrdinalOf(gOutcome.value.failedAds[j].id) = k
                 /\ gOutcome.value.failedAds[j].errorCode = "GenerationFailed"

IdsWellFormed(ads) ==
  \A j \in 1..Len(ads) : Len(ads[j].id) = 4 /\ Head(ads[j].id) = "ad-"

Increasing(ads) ==
  \A i, j \in 1..Len(ads) : i < j => OrdinalOf(ads[i].id) < OrdinalOf(ads[j].id)

Occurrences(ads, ordinal) ==
  Cardinality({j \in 1..Len(ads) : OrdinalOf(ads[j].id) = ordinal})

\* C2: whenever generate returns an aggregate for numberOfAds = N, every
\* ordinal 1..N is the id of exactly one entry of generatedAds and failedAds
\* together, so the two lists hold N entries, and each list is in increasing
\* ordinal order.
C2_EveryItemExactlyOnce ==
  gPc = "returned" =>
     LET aggregate == gOutcome.value
     IN  /\ IdsWellFormed(aggregate.generatedAds)
         /\ IdsWellFormed(aggregate.failedAds)
         /\ Len(aggregate.generatedAds) + Len(aggregate.failedAds)
               = gRequest.numberOfAds
         /\ \A ordinal \in 1..gRequest.numberOfAds :
               Occurrences(aggregate.generatedAds, ordinal)
                 + Occurrences(aggregate.failedAds, ordinal) = 1
         /\ Increasing(aggregate.generatedAds)
         /\ Increasing(aggregate.failedAds)

\* an aggregate for four items (two groups): items 1 and 4 generated, item 2
\* without a video, item 3 of too low a quality
C2_Witness ==
  /\ gPc = "returned"
  /\ gRequest.numberOfAds = 4
  /\ Len(gOutcome.value.generatedAds) = 2
  /\ OrdinalOf(gOutcome.value.generatedAds[2].id) = 4
  /\ Len(gOutcome.value.failedAds) = 2
  /\ gOutcome.value.failedAds[1].errorCode = "GenerationFailed"
  /\ gOutcome.value.failedAds[2].errorCode = "QualityTooLow"

RECURSIVE SumCosts(_)
SumCosts(ads) ==
  IF ads = <<>> THEN 0 ELSE Head(ads).metadata.cost + SumCosts(Tail(ads))

\* C4: the totalCost of the aggregate a generate call returns is the cost
\* incurred during that call: the sum of metadata.cost over its generatedAds,
\* also when the ledger already holds entries of earlier calls.
C4_TotalCostIsOfThisCall ==
  gPc = "returned" =>
     gOutcome.value.totalCost = SumCosts(gOutcome.value.generatedAds)

CallsOf(call) == {j \in 1..Len(gCalls) : gCalls[j].call = call}

NothingSubmitted ==
  /\ bPc = "idle"
  /\ \A k \in Items : tPc[k] = "none"
  /\ requestTimestamps = <<>>
  /\ admissions = <<>>
  /\ generationPlan = <<>>
  /\ CallsOf("generateBatch") = {}

\* C13: when the validator reports the source invalid, generate throws
\* without having called the policy checker; when the policy checker reports
\* a result that is not compliant (a risk level other than "safe"), generate
\* throws an error whose message carries every detail string of the checker;
\* in both cases no plan is submitted, and the step that throws leaves the
\* rate window, the batch and the cost ledger as they were, and is the last
\* step of the call.
C13_GatesAbortBeforeSubmission ==
  /\ [](validationResult # NoResult /\ ~validationResult.isValid =>
          /\ gPc = "thrown"
          /\ gOutcome.kind = "thrown"
          /\ \A j \in 1..Len(validationResult.errors) :
                Includes(gOutcome.error.message, <<validationResult.errors[j]>>)
          /\ CallsOf("check") = {}
          /\ policyCheckResult = NoResult
          /\ NothingSubmitted)
  /\ [](policyCheckResult # NoResult
            /\ (~policyCheckResult.isCompliant \/ policyCheckResult.riskLevel # "safe") =>
          /\ gPc = "thrown"
          /\ gOutcome.kind = "thrown"
          /\ policyCheckResult.details # <<>>
          /\ \A j \in 1..Len(policyCheckResult.details) :
                Includes(gOutcome.error.message, <<policyCheckResult.details[j]>>)
          /\ NothingSubmitted)
  /\ [][(gPc \in {"validate", "policy"} /\ gPc' = "thrown") =>
          UNCHANGED <<ledgerVars, rateVars, batchVars, generationPlan>>]_vars
  /\ [][(gPc = "thrown" /\ bPc = "idle") => UNCHANGED vars]_vars

\* generate threw on a source with a brand logo only (risk level medium),
\* the ledger holding the entry of an earlier call
C13_Witness ==
  /\ gPc = "thrown"
  /\ validationResult.isValid
  /\ policyCheckResult.riskLevel = "medium"
  /\ gOutcome.error.message = <<"policy violation: ", "brand logo detected">>
  /\ Len(costs) = 1
  /\ bPc = "idle"

\* the calls of the scorer for the item of 0-based index i
ScoreCalls(i) == {j \in CallsOf("score") : gCalls[j].index = i}

HasMedia(response) == response.status # "failed" /\ response.videoUrl # Undefined

EntriesOf(ads, i) == {j \in 1..Len(ads) : OrdinalOf(ads[j].id) = i + 1}

\* C14: every item whose job produced a media result is scored exactly once;
\* it is in failedAds with errorCode QualityTooLow, and not in generatedAds,
\* iff its overall score is below 70, and in generatedAds, with that score,
\* iff the score is 70 or more; once the batch has returned nothing is
\* submitted again: no item is retried after its score.
C14_QualityGate ==
  /\ [](gPc \in {"score", "returned"} =>
          \A i \in 0..(gIndex - 1) :
             IF HasMedia(sora2Responses[i + 1])
               THEN /\ Cardinality(ScoreCalls(i)) = 1
                    /\ LET overall == gCalls[CHOOSE j \in ScoreCalls(i) : TRUE].overall
                       IN  IF overall < 70
                             THEN /\ EntriesOf(generatedAds, i) = {}
                                  /\ \E j \in EntriesOf(failedAds, i) :
                                        failedAds[j].errorCode = "QualityTooLow"
                                  /\ Cardinality(EntriesOf(failedAds, i)) = 1
                             ELSE /\ EntriesOf(failedAds, i) = {}
                                  /\ Cardinality(EntriesOf(generatedAds, i)) = 1
                                  /\ \E j \in EntriesOf(generatedAds, i) :
                                        generatedAds[j].qualityScore = overall
               ELSE /\ ScoreCalls(i) = {}
                    /\ \A j \in EntriesOf(failedAds, i) :
                          failedAds[j].errorCode # "QualityTooLow")
  /\ [][(gPc \in {"score", "returned"}) => UNCHANGED batchVars]_vars

\* two items with media: the first scored 70 and generated, the second
\* scored 65 and failed
C14_Witness ==
  /\ gPc = "returned"
  /\ gRequest.numberOfAds = 2
  /\ Len(generatedAds) = 1 /\ generatedAds[1].qualityScore = 70
  /\ generatedAds[1].id = AdId(0)
  /\ Len(failedAds) = 1 /\ failedAds[1].errorCode = "QualityTooLow"
  /\ gCalls[Len(gCalls)] = CallOf("score", 1, 65)

----------------------------------------------------------------------------
(* Claims about the CostTracker (SpecLedger) *)

\* C15: calculateVideoCost(duration, resolution) is the larger of
\* duration * rate[resolution] and the minimum charge 5.00, with rate 0.50
\* for 720p and 1.00 for 1080p (in cents: 3 s at 1080p -> 500, 10 s at 720p
\* -> 500, 20 s at 1080p -> 2000); two calls with the same arguments give the
\* same result in any ledger state, and a call leaves the ledger's total and
\* entries unchanged.
C15_VideoCostIsPure ==
  /\ [](\A c \in cCalls :
          LET rate == IF c.resolution = "720p" THEN 50 ELSE 100
              raw  == c.duration * rate
          IN  /\ c.cost = IF raw >= 500 THEN raw ELSE 500
              /\ (c.duration = 3 /\ c.resolution = "1080p") => c.cost = 500
              /\ (c.duration = 10 /\ c.resolution = "720p") => c.cost = 500
              /\ (c.duration = 20 /\ c.resolution = "1080p") => c.cost = 2000)
  /\ [](\A c, d \in cCalls :
          (c.duration = d.duration /\ c.resolution = d.resolution) => c.cost = d.cost)
  /\ [][cCalls' # cCalls => UNCHANGED ledgerVars]_vars

\* the three example calls were made, on a ledger holding two entries
C15_Witness ==
  /\ [duration |-> 3, resolution |-> "1080p", cost |-> 500] \in cCalls
  /\ [duration |-> 10, resolution |-> "720p", cost |-> 500] \in cCalls
  /\ [duration |-> 20, resolution |-> "1080p", cost |-> 2000] \in cCalls
  /\ Len(costs) = 2
  /\ totalCost = 2500

----------------------------------------------------------------------------
(* More claims about waitForRateLimit (SpecRate) *)

\* caller c enters waitForRateLimit in this step
Enters(c) == wPc[c] = "idle" /\ wPc'[c] # "idle"

\* caller c returns from its sleep in this step
Wakes(c) == wPc[c] = "sleeping" /\ wPc'[c] = "admitted"

\* C16: of five acquisitions issued on a fresh limiter at times t1 <= ... <=
\* t5 within one minute, the first three are admitted at once, the fourth is
\* blocked, until 60000 ms after the first acquisition, and the fifth is
\* blocked, until 60000 ms after the second acquisition.
C16_FiveBackToBack ==
  /\ [][\A c \in 1..3 : Enters(c) => wPc'[c] = "admitted"]_vars
  /\ [][\A c \in 4..5 :
          (Enters(c) /\ clock - wNow[1] < rateWindow) => wPc'[c] = "sleeping"]_vars
  /\ [][(Wakes(4) /\ wNow[4] - wNow[1] < rateWindow) =>
          clock >= wNow[1] + rateWindow]_vars
  /\ [][(Wakes(5) /\ wNow[5] - wNow[1] < rateWindow) =>
          clock >= wNow[2] + rateWindow]_vars

\* C20: in every reachable state the rate window holds at most
\* requestsPerMinute timestamps within the trailing rateWindow ms.
C20_WindowHoldsAtMostThree ==
  Len(WithinLastMinute(requestTimestamps, clock)) <= requestsPerMinute

----------------------------------------------------------------------------
(* Claims about the constructors and Sora2APIClient.generate (SpecItem) *)

\* C17: every submission attempt sent to the remote service, the retry
\* attempts of withRetry for the same request included, is preceded by its
\* own rate-limiter acquisition and adds its own timestamp to the rate
\* window: the number of timestamps appended is the number of attempts.
C17_EveryAttemptAcquires ==
  /\ rInvocations <= Len(admissions)
  /\ rInvocations <= Len(requestTimestamps)
  /\ rPc \in {"returned", "thrown"} => Len(requestTimestamps) = rInvocations

NamesRetryable(error) ==
  \/ Includes(error.message, <<"RateLimitExceeded">>)
  \/ Includes(error.message, <<"APITimeout">>)

\* C18: under the default retry policy a RateLimitExceeded or APITimeout
\* error raised during the submission-and-poll sequence of an item, the
\* poller's own timeout error included, surfaces from Sora2APIClient.generate
\* only after the failing step was attempted maxRetries + 1 times.
C18_RetriedBeforeSurfacing ==
  (/\ rConfig = defaultRetryConfig
   /\ iOutcome.kind = "thrown"
   /\ NamesRetryable(iOutcome.error)) =>
     IF pPc = "thrown"
       THEN iPollCalls = rConfig.maxRetries + 1
       ELSE rInvocations = rConfig.maxRetries + 1 /\ Len(rSleeps) = rConfig.maxRetries

ConstructorThrew == cOutcome.kind = "thrown"

\* C19: constructing a Sora2APIClient or a UGCAdGenerator with an empty or
\* missing API key throws in the constructor call itself: no request is
\* sent, the rate window and the ledger are not touched, nothing is retried
\* and no step follows the throw; with a key the constructor does not throw.
C19_MissingKeyThrowsAtConstruction ==
  /\ [](cOutcome # NoOutcome =>
          (ConstructorThrew <=> cOutcome.apiKey \in {"", Undefined}))
  /\ [](ConstructorThrew =>
          /\ cOutcome.error.isError
          /\ requestTimestamps = <<>> /\ admissions = <<>>
          /\ rPc = "idle" /\ rInvocations = 0 /\ rSleeps = <<>>
          /\ pPc = "idle" /\ pQueries = 0 /\ iPollCalls = 0
          /\ totalCost = 0 /\ costs = <<>>
          /\ iOutcome = NoOutcome)
  /\ [][ConstructorThrew => UNCHANGED vars]_vars
  /\ [][(cOutcome = NoOutcome /\ ConstructorThrew') =>
          UNCHANGED <<clock, rateVars, ledgerVars, pollVars, rInvocations, rSleeps>>]_vars

\* a UGCAdGenerator constructed with the empty string as key
C19_Witness ==
  /\ ConstructorThrew
  /\ cOutcome.ctor = "UGCAdGenerator"
  /\ cOutcome.apiKey = ""
  /\ cOutcome.error = MissingKeyError

----------------------------------------------------------------------------
(* Claims about the timestamp waitForRateLimit records (SpecRate) *)

\* C21: the timestamp that waitForRateLimit appends to the rate window is the
\* time at which the caller is admitted (the time the call returns), also
\* when the caller had to wait for a slot, and after a wait the window is
\* re-evaluated before the caller is admitted: the timestamps that have left
\* the trailing minute by then are dropped.
C21_AppendsAdmissionTime ==
  /\ [][\A c \in Callers :
          (wPc[c] # "admitted" /\ wPc'[c] = "admitted") =>
             Last(requestTimestamps') = clock']_vars
  /\ [][\A c \in Callers :
          Wakes(c) =>
             requestTimestamps' =
                Append(WithinLastMinute(requestTimestamps, clock'), clock')]_vars

----------------------------------------------------------------------------
(* More claims about pollJobStatus (SpecPoll) *)

\* a status response arrives in this step
ResponseArrives == pPc = "querying" /\ pResponseAt' # pResponseAt

InFlightStatus(status) == status.status \in {"queued", "processing"}

\* C22: pollJobStatus returns, with the response as payload, only upon a
\* response of status "completed", and upon every such response; it throws an
\* error starting with "GenerationFailed" that carries the remote error
\* message only upon a response of status "failed", and upon every such
\* response; a "queued" and a "processing" response are treated alike: no
\* outcome, a sleep of 10000 ms, then the loop head, which queries again
\* unless the timeout has passed; consecutive status queries are at least
\* 10000 ms apart and nothing is queried after a terminal response.
C22_PollStateMachine ==
  /\ [](pPc = "returned" =>
          /\ pOutcome = [kind |-> "returned", value |-> pStatus]
          /\ pStatus.status = "completed")
  /\ []((pPc = "thrown" /\ Head(pOutcome.error.message) = "GenerationFailed") =>
          /\ pStatus.status = "failed"
          /\ pStatus.error # Undefined =>
                pOutcome.error.message = <<"GenerationFailed", ": ", pStatus.error>>)
  /\ [](pStatus.status = "completed" => pPc = "returned")
  /\ [](pStatus.status = "failed" =>
          pPc = "thrown" /\ Head(pOutcome.error.message) = "GenerationFailed")
  /\ [][ResponseArrives =>
          (InFlightStatus(pStatus') <=>
             /\ pPc' = "sleeping"
             /\ pWakeAt' = clock' + 10000
             /\ UNCHANGED <<pOutcome, pQueries>>)]_vars
  /\ [][pPc = "sleeping" =>
          (pPc' = "loop" /\ clock' >= pWakeAt /\ UNCHANGED <<pQueries, pOutcome>>)]_vars
  /\ [][(pPc = "loop" /\ clock - pStartTime <= generationTimeout) =>
          (pPc' = "querying" /\ pQueries' = pQueries + 1)]_vars
  /\ [][(pQueries' # pQueries /\ pQueries >= 1) =>
          /\ InFlightStatus(pStatus)
          /\ clock' - pLastQueryAt >= 10000]_vars
  /\ [][(pPc \in {"returned", "thrown"}) => UNCHANGED vars]_vars

\* the job failed remotely at the fourth status query, after a reported
\* progress of 30 and of 60
C22_Witness ==
  /\ pPc = "thrown"
  /\ pQueries = 4
  /\ pStatus.status = "failed"
  /\ pStatus.error = "content rejected"
  /\ pOutcome.error = GenerationFailedError("content rejected")
  /\ pLogged = <<30, 60>>

StrictlyIncreasing(seq) == \A i, j \in 1..Len(seq) : i < j => seq[i] < seq[j]

\* C23: a response whose progress is lower than, equal to, or missing
\* relative to the progress remembered so far leaves the remembered progress
\* and the log as they are, and its effect is the one of its status alone (an
\* error only for status "failed", a return only for "completed", else the
\* polling sleep); the remembered progress never decreases, and a value is
\* logged only when it is greater than the remembered progress and than every
\* value logged before.
C23_ProgressRegressionTolerated ==
  /\ [][(ResponseArrives
           /\ (pStatus'.progress = NoProgress \/ pStatus'.progress <= pProgress)) =>
          /\ UNCHANGED <<pProgress, pLogged>>
          /\ pPc' = "thrown" <=> pStatus'.status = "failed"
          /\ pPc' = "returned" <=> pStatus'.status = "completed"
          /\ pPc' = "sleeping" <=> InFlightStatus(pStatus')]_vars
  /\ [][pProgress' >= pProgress]_vars
  /\ [][pLogged' # pLogged =>
          /\ ResponseArrives
          /\ pLogged' = Append(pLogged, pStatus'.progress)
          /\ pStatus'.progress > pProgress
          /\ \A j \in 1..Len(pLogged) : pStatus'.progress > pLogged[j]
          /\ pProgress' = pStatus'.progress]_vars
  /\ [](StrictlyIncreasing(pLogged))
  /\ [](pLogged # <<>> => pProgress = Last(pLogged))

\* the job completed after its reported progress had gone from 60 back to 30
\* and then missing
C23_Witness ==
  /\ pPc = "returned"
  /\ pQueries = 4
  /\ pProgress = 60
  /\ pLogged = <<60>>
  /\ pStatus.progress = NoProgress

\* pollJobStatus issues at most 31 status queries, the k-th not before elapsed
\* (k - 1) * 10000 and not after elapsed 300000
C24_AtMost31Queries ==
  /\ pQueries <= 31
  /\ pQueries >= 1 =>
        /\ pLastQueryAt - pStartTime >= (pQueries - 1) * pollingInterval
        /\ pLastQueryAt - pStartTime <= generationTimeout

\* zero-latency queries and punctual timers: the 31st query was made at
\* elapsed 300000 and the call timed out at 310000
C24_Witness ==
  /\ pPc = "thrown"
  /\ pOutcome.error = TimeoutError(JobId)
  /\ pQueries = 31
  /\ pLastQueryAt - pStartTime = 300000
  /\ clock = 310000

\* pollJobStatus has returned or thrown
PollTerminated == pPc \in {"returned", "thrown"}

\* pollJobStatus with every status query answered and every timer run
SpecPollFair == SpecPoll /\ WF_vars(NextPoll)

\* C24: every pollJobStatus call eventually returns or throws provided each
\* status query returns, also when the service reports "queued" or
\* "processing" for ever, and it issues at most 31 status queries, at elapsed
\* 0, 10000, ..., 300000 when the queries take no time.
C24_PollTerminates ==
  /\ []C24_AtMost31Queries
  /\ <>PollTerminated

----------------------------------------------------------------------------
(* More claims about generateBatch (SpecBatch) *)

Rejected == {k \in Range(bRequests) : tPc[k] = "rejected"}

\* the task that rejected first
FirstRejected == CHOOSE k \in Rejected :
                    \A j \in 1..Len(settleOrder) :
                       settleOrder[j] \in Rejected => settleOrder[j] = k
                          \/ \E i \in 1..(j - 1) : settleOrder[i] = k

\* C25: when a task of a group rejects, generateBatch rejects with the error
\* of the task that rejected first and delivers no result for any item, the
\* results of earlier, completed groups included; no task of a later group is
\* ever started; the sibling tasks of the failing group are not cancelled:
\* the rejection leaves them where they are and each can go on to its own
\* submission, completion or failure.
C25_AllOrNothingJoin ==
  /\ [](Rejected # {} =>
          /\ bPc = "rejected"
          /\ DOMAIN bOutcome = {"kind", "error"}
          /\ bOutcome.kind = "thrown"
          /\ bOutcome.error = tResult[FirstRejected].error
          /\ GroupOf(FirstRejected) = bIndex
          /\ Len(results) = Len(Flatten(SubSeq(batches, 1, bIndex - 1)))
          /\ \A k \in Range(bRequests) : GroupOf(k) > bIndex => tPc[k] = "none"
          /\ \A k \in Range(bRequests) :
                /\ tPc[k] = "submitting" => ENABLED TaskSubmitted(k)
                /\ tPc[k] = "polling" =>
                      /\ \A response \in TaskResponses(k) : ENABLED TaskFulfils(k, response)
                      /\ \A error \in PollErrors(k) : ENABLED TaskRejects(k, error))
  /\ [][bPc' = "rejected" =>
          /\ UNCHANGED <<bIndex, results, batches>>
          /\ bPc = "rejected" => UNCHANGED bOutcome
          /\ \A k \in Range(bRequests) :
                tPc'[k] # tPc[k] =>
                   /\ GroupOf(k) = bIndex
                   /\ <<tPc[k], tPc'[k]>> \in
                         {<<"submitting", "polling">>, <<"submitting", "rejected">>,
                          <<"polling", "fulfilled">>, <<"polling", "rejected">>}]_vars

\* four requests in groups of two: the first group completed, then request 3
\* was rejected by the poller and its sibling, request 4, still submitting
\* then, went on to complete
C25_Witness ==
  /\ bPc = "rejected"
  /\ Len(bRequests) = 4
  /\ bConcurrency = 2
  /\ settleOrder = <<2, 1, 3, 4>>
  /\ tPc[3] = "rejected"
  /\ tPc[4] = "fulfilled"
  /\ bOutcome.error = GenerationFailedError("content rejected")
  /\ Len(results) = 2

----------------------------------------------------------------------------
(* More claims about the CostTracker (SpecLedger) *)

IsPrefix(a, b) == Len(a) <= Len(b) /\ SubSeq(b, 1, Len(a)) = a

\* C27: in every reachable state of a CostTracker totalCost is the sum of
\* the amounts of the entries of the cost history; a step that adds to the
\* history (recordCost) appends exactly one entry at the end, leaves the
\* earlier entries as they are and adds its amount to the total; a step that
\* removes or changes an entry (reset) empties the history and sets the total
\* to 0; no step changes the budget, and the queries change nothing.
C27_TotalIsSumOfHistory ==
  /\ [](totalCost = SumAmounts(getCostHistory))
  /\ [](getTotalCost = totalCost)
  /\ [][costs' # costs =>
          \/ /\ Len(costs') = Len(costs) + 1
             /\ IsPrefix(costs, costs')
             /\ totalCost' = totalCost + Last(costs').amount
          \/ /\ costs' = <<>>
             /\ totalCost' = 0]_vars
  /\ [][totalCost' # totalCost => costs' # costs]_vars
  /\ [][cBudget' = cBudget]_vars

\* a tracker with a budget of 50.00 that was reset after its entries had
\* brought the warning
C27_Witness ==
  /\ cBudget = 5000
  /\ cWarned
  /\ costs = <<>>
  /\ totalCost = 0

----------------------------------------------------------------------------
(* Claims about the ledger during generate (SpecGen) *)

\* the text `Ad ${index + 1} generated` for the ad of an id
DescriptionOf(id) == <<"Ad ">> \o NumToString(OrdinalOf(id)) \o <<" generated">>

\* C26: during one generate call the ledger receives exactly one entry per
\* item placed in generatedAds, appended in the same step, with the amount of
\* that item's metadata.cost, and no entry for an item placed in failedAds,
\* be it GenerationFailed or QualityTooLow: the entries appended by the call
\* are the last |generatedAds| entries of the ledger, one per generated ad,
\* in order.
C26_OneLedgerEntryPerGeneratedAd ==
  /\ [][generatedAds' # generatedAds /\ gPc = "score" =>
          /\ Len(generatedAds') = Len(generatedAds) + 1
          /\ costs' = Append(costs, Last(costs'))
          /\ Last(costs').amount = Last(generatedAds').metadata.cost
          /\ Last(costs').description = DescriptionOf(Last(generatedAds').id)
          /\ totalCost' = totalCost + Last(generatedAds').metadata.cost]_vars
  /\ [][costs' # costs => (gPc = "score" /\ generatedAds' # generatedAds)]_vars
  /\ [][failedAds' # failedAds /\ gPc = "score" =>
          /\ UNCHANGED <<totalCost, costs, generatedAds>>
          /\ Last(failedAds').errorCode \in {"GenerationFailed", "QualityTooLow"}]_vars
  /\ [](gPc \in {"score", "returned"} =>
          /\ Len(costs) >= Len(generatedAds)
          /\ \A j \in 1..Len(generatedAds) :
                LET entry == costs[Len(costs) - Len(generatedAds) + j]
                IN  /\ entry.amount = generatedAds[j].metadata.cost
                    /\ entry.description = DescriptionOf(generatedAds[j].id))

\* four items on a ledger holding one earlier entry: items 2 and 4 generated
\* and charged, item 1 without a video, item 3 of too low a quality
C26_Witness ==
  /\ gPc = "returned"
  /\ gRequest.numberOfAds = 4
  /\ Len(generatedAds) = 2
  /\ generatedAds[1].id = AdId(1) /\ generatedAds[2].id = AdId(3)
  /\ failedAds[1].errorCode = "GenerationFailed"
  /\ failedAds[2].errorCode = "QualityTooLow"
  /\ Len(costs) = 3
  /\ costs[3].description = <<"Ad ", "4", " generated">>
  /\ totalCost = costs[1].amount + 2 * generatedAds[1].metadata.cost

\* the item the scoring loop is at has a video
AtItemWithMedia ==
  /\ gPc = "score"
  /\ gIndex < Len(sora2Responses)
  /\ HasMedia(sora2Responses[gIndex + 1])

\* C28: budget exhaustion blocks and fails nothing: whatever the ledger
\* total, below, at or above the monthly budget, generate scores the next
\* item and records the cost of an item that passes, and it throws for no
\* other reason than an invalid source, a policy violation or a rejected
\* batch; recordCost logs the warning exactly when the total after recording
\* is at least 90% of the budget; isOverBudget is true exactly when the total
\* is at least the budget, and getRemainingBudget is the budget less the
\* total, or 0 when that is negative.
C28_BudgetNeverBlocks ==
  /\ [](AtItemWithMedia => \A overall \in ScorerResults : ENABLED ScoreResponse(overall))
  /\ [][(AtItemWithMedia /\ gIndex' = gIndex + 1 /\ failedAds' = failedAds) =>
          /\ Len(costs') = Len(costs) + 1
          /\ totalCost' > totalCost
          /\ Len(generatedAds') = Len(generatedAds) + 1]_vars
  /\ [](gPc = "thrown" =>
          \/ ~validationResult.isValid
          \/ ~policyCheckResult.isCompliant
          \/ bPc = "rejected")
  /\ [][Len(costs') > Len(costs) =>
          (cWarned' <=> 10 * totalCost' >= 9 * cBudget)]_vars
  /\ [](isOverBudget <=> totalCost >= cBudget)
  /\ [](getRemainingBudget >= 0)
  /\ [](getRemainingBudget = IF totalCost <= cBudget THEN cBudget - totalCost ELSE 0)

\* generate returned two generated ads on a ledger that an earlier call had
\* left at 499500, one minimum charge below the budget of 500000: the first
\* ad brought it to the budget, the second above it, both with the warning
C28_Witness ==
  /\ gPc = "returned"
  /\ Len(generatedAds) = 2
  /\ Len(costs) = 3
  /\ costs[1].amount = 499500
  /\ totalCost = 500500
  /\ isOverBudget
  /\ getRemainingBudget = 0
  /\ cWarned

----------------------------------------------------------------------------
(* Claims about createGenerationPlan (SpecPlan) *)

\* the arguments buildVariedPrompt was given for a plan: tone and pacing
ToneOf(plan) == plan.prompt[3]
PacingOf(plan) == plan.prompt[5]

Mediums(plan) == {k \in 1..Len(plan) : PacingOf(plan[k]) = "medium"}

\* C29: createGenerationPlan gives the same plans for the same request, and
\* for numberOfAds = N >= 1, a non-empty style list S and a non-empty
\* aspect-ratio list A it yields exactly N plans in ordinal order, plan i
\* (0-based) having style S[i mod |S|] and aspect ratio A[i mod |A|], tone
\* "energetic" for even i and "friendly" for odd i, and pacing "medium" iff
\* i < N/2, so that ceil(N/2) plans are medium and the others short; N = 5
\* with three styles and two aspect ratios gives the styles 1,2,3,1,2 and
\* the aspect ratios 1,2,1,2,1 of the lists.
C29_PlanRoundRobin ==
  /\ []((planCall # NoPlanCall /\ planCall.request.ugcStyle # <<>>) =>
          LET N    == planCall.request.numberOfAds
              S    == planCall.request.ugcStyle
              A    == planCall.request.targetAspectRatio
              plan == planCall.plan
          IN  /\ Len(plan) = N
              /\ \A i \in 0..(N - 1) :
                    /\ plan[i + 1].ugcStyle = S[(i % Len(S)) + 1]
                    /\ plan[i + 1].aspectRatio = A[(i % Len(A)) + 1]
                    /\ ToneOf(plan[i + 1]) = (IF i % 2 = 0 THEN "energetic" ELSE "friendly")
                    /\ PacingOf(plan[i + 1]) \in {"medium", "short"}
                    /\ PacingOf(plan[i + 1]) = "medium" <=> 2 * i < N
              /\ Cardinality(Mediums(plan)) = (N + 1) \div 2
              /\ (N = 5 /\ Len(S) = 3 /\ Len(A) = 2) =>
                    /\ [k \in 1..5 |-> plan[k].ugcStyle] = <<S[1], S[2], S[3], S[1], S[2]>>
                    /\ [k \in 1..5 |-> plan[k].aspectRatio] = <<A[1], A[2], A[1], A[2], A[1]>>)
  /\ [][planCall'.request = planCall.request => planCall'.plan = planCall.plan]_vars

\* the example of five ads with three styles and two aspect ratios
C29_Witness ==
  /\ planCall.request.numberOfAds = 5
  /\ planCall.request.ugcStyle = <<"casual", "testimonial", "tutorial">>
  /\ planCall.request.targetAspectRatio = <<"9:16", "16:9">>
  /\ [k \in 1..5 |-> planCall.plan[k].ugcStyle]
        = <<"casual", "testimonial", "tutorial", "casual", "testimonial">>
  /\ [k \in 1..5 |-> PacingOf(planCall.plan[k])]
        = <<"medium", "medium", "medium", "short", "short">>

----------------------------------------------------------------------------
(* Claims about several UGCAdGenerator instances (SpecInstances) *)

\* the rate window and the ledger of an instance
SharedStateOf(g, all) ==
  <<all[g].requestTimestamps, all[g].totalCost, all[g].costs>>

\* C30: two UGCAdGenerator instances share no mutable state: a method call
\* on one instance (a rate-limiter acquisition with its submission, the end
\* of its wait, a recordCost) leaves the rate window and the cost ledger,
\* total and entries, of the other instance unchanged, and so does the
\* passing of time.
C30_InstancesShareNoState ==
  [][\A g \in Instances :
       g # actor' => SharedStateOf(g, insts') = SharedStateOf(g, insts)]_vars

\* instance 1 has a full window and a waiting caller and no ledger entry,
\* instance 2 a ledger entry and an empty window
C30_Witness ==
  /\ insts[1].requestTimestamps = <<0, 0, 0>>
  /\ insts[1].pc = "sleeping"
  /\ insts[1].costs = <<>>
  /\ insts[2].requestTimestamps = <<>>
  /\ insts[2].totalCost = 2000
  /\ Len(insts[2].costs) = 1
  /\ actor = 2

----------------------------------------------------------------------------
(* Claims about generateBatch with any integer concurrency (SpecBatchAny) *)

\* the most batches the partitioning loop is followed for
MaxBatches == 6

\* the integer concurrency values a caller can pass: negative, 0, positive
AnyConcurrency == (0 - MaxConcurrency)..MaxConcurrency

\* a caller calls generateBatch on a fresh client with any integer concurrency
BatchCallAny ==
  /\ bPc = "idle"
  /\ \E n \in 0..MaxItems, concurrency \in AnyConcurrency :
        GenerateBatchCall([k \in 1..n |-> k], concurrency)
  /\ UNCHANGED notBatch

\* lines 243-245: one iteration of the partitioning loop, followed while
\* `batches` holds fewer than MaxBatches slices
BatchSplitStepBounded ==
  /\ Len(batches) < MaxBatches
  /\ BatchSplitStep

NextBatchAny ==
  \/ BatchCallAny
  \/ BatchSplitStepBounded
  \/ BatchSplitDone
  \/ TaskSubmit
  \/ TaskFulfil
  \/ TaskReject
  \/ BatchJoin

InitSpecBatchAny == IdleBatch /\ clock = 0 /\ IdleRetry /\ IdlePoll /\ InitRate /\ InitLedger /\ IdleGen /\ IdleBatchRetry /\ NoCostCalls /\ InitItem /\ IdlePlan /\ IdleInstances

SpecBatchAny == InitSpecBatchAny /\ [][NextBatchAny]_vars

\* the requests the partitioning loop has still to slice: the loop runs
\* while i < requests.length
Remaining == Max(0, Len(bRequests) - bI)

\* C31: generateBatch terminates for every request list and every integer
\* concurrency a caller passes, 0 and negative values included, provided
\* each item task terminates: every iteration of the partitioning loop
\* makes progress, that is, leaves fewer requests to slice than it found, so
\* the loop ends after at most requests.length iterations.
C31_PartitioningLoopProgresses ==
  [][BatchSplitStepBounded =>
       (Remaining' < Remaining /\ Len(batches') <= Len(bRequests))]_vars

----------------------------------------------------------------------------
(* Claims about the order of withRetry's invocations and sleeps (SpecRetry) *)

\* the invocations of fn that have settled: the rejected ones and the
\* fulfilled one, after which withRetry returns
SettledInvocations == Len(rRaised) + (IF rPc = "returned" THEN 1 ELSE 0)

\* C32: withRetry returns the value of the first successful invocation of
\* the operation (every invocation before it rejected) and never invokes
\* the operation after a success; it sleeps only between attempts: not
\* before the first invocation and not after the final failed one, so that
\* once the operation has been invoked the number of backoff sleeps is the
\* number of invocations minus one; and an invocation starts only after the
\* previous one has settled.
C32_SleepsOnlyBetweenAttempts ==
  /\ []((rPc \in {"awaiting", "returned", "thrown"}) =>
          /\ rInvocations >= 1
          /\ Len(rSleeps) = rInvocations - 1)
  /\ []((rPc = "returned") =>
          /\ rOutcome.kind = "returned"
          /\ rOutcome.value \in OperationValues
          /\ Len(rRaised) = rInvocations - 1)
  /\ [][(rPc = "awaiting" /\ rPc' = "returned") =>
          /\ rOutcome' \in {[kind |-> "returned", value |-> v] : v \in OperationValues}
          /\ rOutcome = NoOutcome]_vars
  /\ [][(rPc \in {"returned", "thrown"}) =>
          UNCHANGED <<rPc, rInvocations, rSleeps, rOutcome, rRaised>>]_vars
  /\ [][(rInvocations' # rInvocations) =>
          /\ rInvocations' = rInvocations + 1
          /\ SettledInvocations = rInvocations
          /\ rPc' = "awaiting"
          /\ Len(rSleeps) = rInvocations
          /\ rSleeps' = rSleeps]_vars
  /\ [][(rSleeps' # rSleeps) =>
          /\ Len(rSleeps') = Len(rSleeps) + 1
          /\ rInvocations >= 1
          /\ SettledInvocations = rInvocations
          /\ rInvocations' = rInvocations
          /\ rAttempt <= rConfig.maxRetries]_vars

\* two invocations rejected with a retryable error, the third fulfilled:
\* two sleeps, and withRetry has returned that value
C32_Witness ==
  /\ rPc = "returned"
  /\ rInvocations = 3
  /\ Len(rRaised) = 2
  /\ Len(rSleeps) = 2
  /\ rOutcome = [kind |-> "returned", value |-> "value"]
  /\ rConfig.maxRetries = 6

====
